---- MODULE Spec2Model ----
(***************************************************************************)
(* curlion: ConnectionManager (the reactor over a libcurl multi handle),   *)
(* Connection lifecycle hooks, and the boost.asio Timer / SocketWatcher    *)
(* adapters of example/asio.cpp.  Single threaded: one event loop runs one *)
(* handler at a time; the position inside a running handler is `ctx`.      *)
(***************************************************************************)
EXTENDS Integers, Sequences, FiniteSets, Bags, TLC

\* ---------------------------------------------------------------- bounds
MaxStarts == 2          \* StartConnection calls that register one connection
MaxQueue == 2           \* completion messages queued inside the engine
MaxTimerHandlers == 2   \* deadline_timer wait handlers not yet run
MaxWatchers == 2        \* AsioSingleSocketWatcher objects alive at once
MaxWaits == 2           \* one-shot waits outstanding per watcher direction
MaxChunks == 2          \* chunks the engine writes into a response buffer

\* ------------------------------------------------------------- universes
Conns == {"A", "B"}
CHandle == [c \in Conns |-> IF c = "A" THEN "E1" ELSE "E2"]
Handles == {CHandle[c] : c \in Conns}
Sockets == {"S1"}
Results == {"CURLE_OK", "CURLE_COULDNT_CONNECT"}
CURL_LAST == "CURL_LAST"
PollActions == {"CURL_POLL_IN", "CURL_POLL_OUT", "CURL_POLL_INOUT", "CURL_POLL_REMOVE"}
Deadlines == {-1, 0, 1}
TimerRequests == {<<>>} \cup {<<d>> : d \in Deadlines}
HasFinishedCallback == [c \in Conns |-> c = "A"]
HandleConn(easy_handle) == CHOOSE c \in Conns : CHandle[c] = easy_handle

VARIABLES
    running_connections_,        \* ConnectionManager: easy handle -> connection
    result_,                     \* Connection::result_
    request_body_read_length_,   \* Connection::request_body_read_length_
    response_header_,            \* Connection::response_header_ (chunks)
    response_body_,              \* Connection::response_body_ (chunks)
    has_parsed_response_headers_, \* HttpConnection::has_parsed_response_headers_
    response_headers_,           \* HttpConnection::response_headers_ (multimap, as a bag)
    multi_handles,               \* engine: easy handles added and not removed
    msg_queue,                   \* engine: completion messages not yet read
    socket_pointer,              \* engine: per socket pointer (curl_multi_assign)
    timer_,                      \* AsioTimer: wait handlers of the deadline_timer
    sockets_,                    \* AsioSocketManager::sockets_ (open sockets)
    watchers_,                   \* AsioSocketManager::watchers_ (socket -> watcher)
    watcher_obj,                 \* AsioSingleSocketWatcher objects by id
    ctx,                         \* position of the handler the event loop is running
    last,                        \* the most recent handler step and the calls it issued
    start_count,                 \* StartConnection calls that registered the connection
    finish_count,                \* DidFinish invocations per connection
    abort_count,                 \* AbortConnection calls that removed the connection
    phase,                       \* what last happened to the connection: started, finished, aborted
    watch_issued,                \* socket -> a Watch call was issued since the engine last
                                 \* passed the socket without the tag
    caller_ref,                  \* connection -> the caller holds a shared_ptr to it
    destroyed                    \* connections whose destructor has run

http_vars == <<has_parsed_response_headers_, response_headers_>>
conn_vars == <<result_, request_body_read_length_, response_header_, response_body_, http_vars>>
engine_vars == <<multi_handles, msg_queue, socket_pointer>>
watch_vars == <<sockets_, watchers_, watcher_obj>>
count_vars == <<start_count, finish_count, abort_count, phase, watch_issued>>
own_vars == <<caller_ref, destroyed>>
vars == <<running_connections_, conn_vars, engine_vars, timer_, watch_vars, ctx, last, count_vars,
          own_vars>>

\* ----------------------------------------------------------- call records
Call(f, s, e, ms) == [f |-> f, s |-> s, e |-> e, ms |-> ms]
Step(op, conn, socket, action, tag, ms, hit, calls) ==
    [op |-> op, conn |-> conn, socket |-> socket, action |-> action,
     tag |-> tag, ms |-> ms, hit |-> hit, calls |-> calls]
NoStep == Step("none", "-", "-", "-", 0, 0, FALSE, <<>>)
EnvStep(op) == Step("env", "-", "-", "-", 0, 0, FALSE, <<>>)

\* done: the DidFinish calls of the handler invocation so far
Idle == [h |-> "idle", pc |-> "idle", w |-> 0, cw |-> FALSE, socket |-> "-", cb |-> "-", done |-> 0]
InCaller == ctx.pc \in {"idle", "callback"}

\* ----------------------------------------------------- map helpers (std::map)
MapInsert(m, k, v) == IF k \in DOMAIN m THEN m ELSE [x \in DOMAIN m \cup {k} |-> IF x = k THEN v ELSE m[x]]
MapErase(m, k) == [x \in DOMAIN m \ {k} |-> m[x]]

\* --------------------------------------------------------------- AsioTimer
TimerTotal(t) == t.waiting + t.expired + t.aborted

\* deadline_timer::cancel: every wait still pending completes with
\* operation_aborted; a wait whose handler is already queued is untouched.
AsioTimerStopNothing(t) == t
AsioTimerStop(t) == [t EXCEPT !.waiting = 0, !.aborted = t.aborted + t.waiting]

\* expires_from_now cancels the pending waits, async_wait adds one.
AsioTimerStart(t, ms) ==
    [t EXCEPT !.waiting = 1, !.aborted = t.aborted + t.waiting]

\* --------------------------------------------------- ConnectionManager::SetTimer
SetTimerState(t, ms) ==
    IF ms >= 0 THEN AsioTimerStart(AsioTimerStop(t), ms) ELSE AsioTimerStop(t)

SetTimerCallsAlwaysStart(ms) ==
    <<Call("Timer::Stop", "-", "-", 0), Call("Timer::Start", "-", "-", ms)>>
SetTimerCalls(ms) ==
    IF ms >= 0 THEN <<Call("Timer::Stop", "-", "-", 0), Call("Timer::Start", "-", "-", ms)>>
               ELSE <<Call("Timer::Stop", "-", "-", 0)>>

\* the timer callbacks the engine issues during one call into it
TimerAfter(t, req) == IF req = <<>> THEN t ELSE SetTimerState(t, req[1])
TimerCallsOf(req) == IF req = <<>> THEN <<>> ELSE SetTimerCalls(req[1])
TimerRoom(t, req) ==
    IF req = <<>> THEN TRUE ELSE IF req[1] < 0 THEN TRUE ELSE TimerTotal(t) < MaxTimerHandlers


\* ------------------------------------------------ AsioSingleSocketWatcher
\* One-shot waits of one direction: still pending, completed (handler queued
\* on the io_service), completed with operation_aborted (handler queued).
NoWaits == [waiting |-> 0, ready |-> 0, aborted |-> 0]
NoWatcher == [used |-> FALSE, socket |-> "-", event |-> "-", is_stopped |-> FALSE,
              open |-> FALSE, rd |-> NoWaits, wr |-> NoWaits]
WaitTotal(q) == q.waiting + q.ready + q.aborted
WatchRead(event) == event \in {"Read", "ReadWrite"}
WatchWrite(event) == event \in {"Write", "ReadWrite"}

\* async_read_some / async_write_some with null_buffers: a wait on an open
\* socket is pending; on a closed socket it completes at once with an error
\* other than operation_aborted.
IssueWait(q, open) ==
    IF open THEN [q EXCEPT !.waiting = @ + 1] ELSE [q EXCEPT !.ready = @ + 1]

\* socket cancel() / close(): every pending wait completes with operation_aborted
CancelWaits(q) == [q EXCEPT !.waiting = 0, !.aborted = q.aborted + q.waiting]

\* AsioSingleSocketWatcher::Watch
SingleWatch(o) ==
    [o EXCEPT !.rd = IF WatchRead(o.event) THEN IssueWait(o.rd, o.open) ELSE o.rd,
              !.wr = IF WatchWrite(o.event) THEN IssueWait(o.wr, o.open) ELSE o.wr]

\* the effect of cancel()/close() of the socket object of `socket` on every
\* watcher that waits on that object
CancelSocket(objs, socket) ==
    [i \in DOMAIN objs |->
        IF objs[i].used /\ objs[i].open /\ objs[i].socket = socket
        THEN [objs[i] EXCEPT !.rd = CancelWaits(objs[i].rd), !.wr = CancelWaits(objs[i].wr)]
        ELSE objs[i]]

\* AsioSingleSocketWatcher::Stop, on the watcher i: cancel() is called only
\* while socket_->is_open()
StopCancelsAlways(o) == TRUE
StopCancels(o) == o.open
SingleStop(objs, i) ==
    LET flagged == [objs EXCEPT ![i].is_stopped = TRUE] IN
    IF StopCancels(objs[i]) THEN CancelSocket(flagged, objs[i].socket) ELSE flagged

\* a watcher object lives while watchers_ holds it, a wait handler holds it
\* (shared_from_this bound into the handler) or its handler is executing
Referenced(W, i, running) ==
    \/ \E s \in DOMAIN W.watchers : W.watchers[s] = i
    \/ WaitTotal(W.objs[i].rd) + WaitTotal(W.objs[i].wr) > 0
    \/ running = i
Collect(W, running) ==
    [W EXCEPT !.objs = [i \in DOMAIN W.objs |->
        IF W.objs[i].used /\ Referenced(W, i, running) THEN W.objs[i] ELSE NoWatcher]]

FreeSlots(objs) == {i \in DOMAIN objs : ~objs[i].used}
NewSlot(objs) == CHOOSE i \in FreeSlots(objs) : \A j \in FreeSlots(objs) : i <= j

\* ------------------------------------------------------ AsioSocketManager
WatcherState == [sockets |-> sockets_, watchers |-> watchers_, objs |-> watcher_obj]

\* AsioSocketManager::Watch
AsioWatch(W, socket, event) ==
    IF socket \notin W.sockets THEN W
    ELSE LET i == NewSlot(W.objs)
             watcher == SingleWatch([NoWatcher EXCEPT !.used = TRUE, !.socket = socket,
                                                      !.event = event, !.open = TRUE])
         IN [W EXCEPT !.objs = [W.objs EXCEPT ![i] = watcher],
                      !.watchers = MapInsert(W.watchers, socket, i)]

\* AsioSocketManager::StopWatching
AsioStopWatchingKept(W, socket) == W
AsioStopWatching(W, socket) ==
    IF socket \notin DOMAIN W.watchers THEN W
    ELSE [W EXCEPT !.objs = SingleStop(W.objs, W.watchers[socket]),
                   !.watchers = MapErase(W.watchers, socket)]

\* cancel() on a socket that is closed throws (bad_descriptor); the exception
\* leaves StopWatching and the engine callback that called it
StopWatchingFaults(W, socket) ==
    IF socket \notin DOMAIN W.watchers THEN FALSE
    ELSE StopCancels(W.objs[W.watchers[socket]]) /\ ~W.objs[W.watchers[socket]].open

\* AsioSocketManager::Open
AsioOpen(W, socket) == [W EXCEPT !.sockets = W.sockets \cup {socket}]

\* AsioSocketManager::Close
AsioClose(W, socket) ==
    IF socket \notin W.sockets THEN W
    ELSE [W EXCEPT !.sockets = W.sockets \ {socket},
                   !.objs = [i \in DOMAIN W.objs |->
                       IF W.objs[i].used /\ W.objs[i].open /\ W.objs[i].socket = socket
                       THEN [CancelSocket(W.objs, socket)[i] EXCEPT !.open = FALSE]
                       ELSE W.objs[i]]]

\* ------------------------------------------- ConnectionManager::WatchSocket
kIsNotNewSocketTag == 1

WatchEventRead(action) == "Read"
WatchEvent(action) ==
    IF action = "CURL_POLL_OUT" THEN "Write"
    ELSE IF action = "CURL_POLL_INOUT" THEN "ReadWrite"
    ELSE "Read"

\* the calls WatchSocket issues on the SocketWatcher and on the engine, in order
WatchSocketCallsAnyTag(socket, action, tag) ==
    <<Call("StopWatching", socket, "-", 0)>>
    \o (IF action = "CURL_POLL_REMOVE" THEN <<>>
        ELSE <<Call("Watch", socket, WatchEvent(action), 0)>>)
WatchSocketCallsRemoveFirst(socket, action, tag) ==
    IF action = "CURL_POLL_REMOVE" THEN <<>>
    ELSE (IF tag = kIsNotNewSocketTag
             THEN <<Call("StopWatching", socket, "-", 0)>>
             ELSE <<Call("curl_multi_assign", socket, "-", 0)>>)
         \o <<Call("Watch", socket, WatchEvent(action), 0)>>
WatchSocketCalls(socket, action, tag) ==
    (IF tag = kIsNotNewSocketTag
        THEN <<Call("StopWatching", socket, "-", 0)>>
        ELSE <<Call("curl_multi_assign", socket, "-", 0)>>)
    \o (IF action = "CURL_POLL_REMOVE" THEN <<>>
        ELSE <<Call("Watch", socket, WatchEvent(action), 0)>>)

RECURSIVE ApplyWatcherCalls(_, _)
ApplyWatcherCalls(W, calls) ==
    IF calls = <<>> THEN W
    ELSE LET c == Head(calls)
             W1 == IF c.f = "StopWatching" THEN AsioStopWatching(W, c.s)
                   ELSE IF c.f = "Watch" THEN AsioWatch(W, c.s, c.e)
                   ELSE W
         IN ApplyWatcherCalls(W1, Tail(calls))

\* whether a Watch call was issued for the socket since the engine last passed
\* it with a pointer other than the tag (this call included)
WatchIssued(old, calls, tag) ==
    \/ tag = kIsNotNewSocketTag /\ old
    \/ \E k \in DOMAIN calls : calls[k].f = "Watch"

\* the socket pointer the engine holds after WatchSocket returned
WatchSocketPointer(calls, old) ==
    IF \E k \in DOMAIN calls : calls[k].f = "curl_multi_assign" THEN kIsNotNewSocketTag ELSE old

\* ------------------------------------------------------------------- Init
Init ==
    /\ running_connections_ = <<>>
    /\ result_ = [c \in Conns |-> CURL_LAST]
    /\ request_body_read_length_ = [c \in Conns |-> 0]
    /\ response_header_ = [c \in Conns |-> <<>>]
    /\ response_body_ = [c \in Conns |-> <<>>]
    /\ has_parsed_response_headers_ = [c \in Conns |-> FALSE]
    /\ response_headers_ = [c \in Conns |-> EmptyBag]
    /\ multi_handles = {}
    /\ msg_queue = <<>>
    /\ socket_pointer = [s \in Sockets |-> 0]
    /\ timer_ = [waiting |-> 0, expired |-> 0, aborted |-> 0]
    /\ sockets_ = {}
    /\ watchers_ = <<>>
    /\ watcher_obj = [i \in 1..MaxWatchers |-> NoWatcher]
    /\ ctx = Idle
    /\ last = NoStep
    /\ start_count = [c \in Conns |-> 0]
    /\ finish_count = [c \in Conns |-> 0]
    /\ abort_count = [c \in Conns |-> 0]
    /\ phase = [c \in Conns |-> "idle"]
    /\ watch_issued = [s \in Sockets |-> FALSE]
    /\ caller_ref = [c \in Conns |-> TRUE]
    /\ destroyed = {}

RECURSIVE SumOver(_, _)
SumOver(f, S) == IF S = {} THEN 0 ELSE LET x == CHOOSE y \in S : TRUE IN f[x] + SumOver(f, S \ {x})
TotalStarts(counts) == SumOver(counts, Conns)

\* the registrations of all connections together are capped where two
\* connections are started: a call for a running connection registers nothing
StartRoom(c) ==
    CHandle[c] \in DOMAIN running_connections_ \/ TotalStarts(start_count) < MaxStarts

\* --------------------------------------------- std::shared_ptr<Connection>
\* the owners of a connection: the caller's shared_ptr, the entry of
\* running_connections_, and the copy CheckFinishedConnections holds while
\* DidFinish runs (local: the connection that copy points to, or "-")
UseCountCallerOnly(c, running, refs, local) == IF refs[c] THEN 1 ELSE 0
UseCount(c, running, refs, local) ==
    (IF refs[c] THEN 1 ELSE 0)
    + (IF CHandle[c] \in DOMAIN running THEN 1 ELSE 0)
    + (IF local = c THEN 1 ELSE 0)

\* the destructor runs when the last owner is gone
Released(d, running, refs, local) ==
    d \cup {c \in Conns : UseCount(c, running, refs, local) = 0}

\* Connection::~Connection calls curl_easy_cleanup, which takes the handle out
\* of the multi handle it is attached to
HandlesAfterCleanup(handles, d) == handles \ {CHandle[c] : c \in d}

\* the shared_ptr the caller passes to StartConnection / AbortConnection: its
\* own, or the one its finished callback was given
CallerCanName(c) == caller_ref[c] \/ (ctx.pc = "callback" /\ ctx.cb = c)

\* the copy of the shared_ptr held by the running CheckFinishedConnections
LocalConnection == IF ctx.pc = "callback" THEN ctx.cb ELSE "-"

\* ------------------------------------------------- ConnectionManager::StartConnection
\* the lookup in running_connections_ that guards StartConnection
AlreadyRunningNever(running, easy_handle) == FALSE
AlreadyRunning(running, easy_handle) == easy_handle \in DOMAIN running

\* running_connections_.insert(std::make_pair(easy_handle, connection))
RunningAfterStartLost(running, easy_handle, c) == running
RunningAfterStart(running, easy_handle, c) == MapInsert(running, easy_handle, c)

\* Connection::ResetState: the result the connection holds afterwards
ResetStateResultKept(old) == old
ResetStateResult(old) == CURL_LAST

\* req: the timer callback the engine issues while curl_multi_add_handle runs.
StartConnection(c, req) ==
    LET easy_handle == CHandle[c] IN
    /\ InCaller
    /\ CallerCanName(c)
    /\ IF AlreadyRunning(running_connections_, easy_handle)
       THEN /\ req = <<>>
            /\ last' = Step("StartConnection", c, "-", "-", 0, 0, FALSE, <<>>)
            /\ UNCHANGED <<running_connections_, conn_vars, engine_vars, timer_, count_vars>>
       ELSE /\ start_count[c] < MaxStarts
            /\ TimerRoom(timer_, req)
            \* WillStart -> ResetState
            /\ request_body_read_length_' = [request_body_read_length_ EXCEPT ![c] = 0]
            /\ result_' = [result_ EXCEPT ![c] = ResetStateResult(@)]
            /\ response_header_' = [response_header_ EXCEPT ![c] = <<>>]
            /\ response_body_' = [response_body_ EXCEPT ![c] = <<>>]
            \* HttpConnection::ResetState
            /\ has_parsed_response_headers_' = [has_parsed_response_headers_ EXCEPT ![c] = FALSE]
            /\ response_headers_' = [response_headers_ EXCEPT ![c] = EmptyBag]
            /\ running_connections_' = RunningAfterStart(running_connections_, easy_handle, c)
            /\ multi_handles' = multi_handles \cup {easy_handle}
            /\ timer_' = TimerAfter(timer_, req)
            /\ start_count' = [start_count EXCEPT ![c] = @ + 1]
            /\ phase' = [phase EXCEPT ![c] = "running"]
            /\ last' = Step("StartConnection", c, "-", "-", 0, 0, TRUE,
                            <<Call("curl_multi_add_handle", easy_handle, "-", 0)>> \o TimerCallsOf(req))
            /\ UNCHANGED <<msg_queue, socket_pointer, finish_count, abort_count, watch_issued>>
    /\ UNCHANGED <<watch_vars, ctx, own_vars>>

\* ------------------------------------------------- ConnectionManager::AbortConnection
\* purge: whether curl_multi_remove_handle also drops a completion message
\* the engine had queued for the handle.
PurgeQueue(q, easy_handle) == SelectSeq(q, LAMBDA m : m.easy_handle # easy_handle)

\* the lookup in running_connections_ that guards AbortConnection
NotRunningNever(running, easy_handle) == FALSE
NotRunning(running, easy_handle) == easy_handle \notin DOMAIN running

\* running_connections_.erase(easy_handle) in AbortConnection
RunningAfterAbortKept(running, easy_handle) == running
RunningAfterAbort(running, easy_handle) == MapErase(running, easy_handle)

AbortConnection(c, purge) ==
    LET easy_handle == CHandle[c] IN
    /\ InCaller
    /\ CallerCanName(c)
    /\ IF NotRunning(running_connections_, easy_handle)
       THEN /\ purge = FALSE
            /\ last' = Step("AbortConnection", c, "-", "-", 0, 0, FALSE, <<>>)
            /\ UNCHANGED <<running_connections_, multi_handles, msg_queue, abort_count, phase>>
       ELSE /\ running_connections_' = RunningAfterAbort(running_connections_, easy_handle)
            /\ multi_handles' = multi_handles \ {easy_handle}
            /\ msg_queue' = IF purge THEN PurgeQueue(msg_queue, easy_handle) ELSE msg_queue
            /\ abort_count' = [abort_count EXCEPT ![c] = @ + 1]
            /\ phase' = [phase EXCEPT ![c] = "aborted"]
            /\ last' = Step("AbortConnection", c, "-", "-", 0, 0, TRUE,
                            <<Call("curl_multi_remove_handle", easy_handle, "-", 0)>>)
    /\ UNCHANGED <<conn_vars, socket_pointer, timer_, watch_vars, ctx, start_count, finish_count,
                   watch_issued, own_vars>>

\* ------------------------------------------------------------- event loop: timer
\* the deadline of the pending wait passes: its handler is queued
TimerElapse ==
    /\ ctx.pc = "idle"
    /\ timer_.waiting > 0
    /\ timer_' = [timer_ EXCEPT !.waiting = @ - 1, !.expired = @ + 1]
    /\ last' = EnvStep("TimerElapse")
    /\ UNCHANGED <<running_connections_, conn_vars, engine_vars, watch_vars, ctx, count_vars>>
    /\ UNCHANGED own_vars

\* AsioTimer::TimerTriggered run by the event loop; without operation_aborted it
\* calls ConnectionManager::TimerTriggered, which drives the engine.
AsioTimerRunsAlways(error) == TRUE
AsioTimerRuns(error) == error # "operation_aborted"

AsioTimerTriggered(error) ==
    /\ ctx.pc = "idle"
    /\ IF error = "operation_aborted"
       THEN timer_.aborted > 0 /\ timer_' = [timer_ EXCEPT !.aborted = @ - 1]
       ELSE timer_.expired > 0 /\ timer_' = [timer_ EXCEPT !.expired = @ - 1]
    /\ IF AsioTimerRuns(error)
       THEN /\ ctx' = [Idle EXCEPT !.h = "TimerTriggered", !.pc = "drive"]
            /\ last' = Step("TimerTriggered", "-", "CURL_SOCKET_TIMEOUT", "-", 0, 0, TRUE,
                            <<Call("curl_multi_socket_action", "CURL_SOCKET_TIMEOUT", "-", 0)>>)
       ELSE /\ ctx' = ctx
            /\ last' = Step("AsioTimer::TimerTriggered", "-", "-", "-", 0, 0, FALSE, <<>>)
    /\ UNCHANGED <<running_connections_, conn_vars, engine_vars, watch_vars, count_vars>>
    /\ UNCHANGED own_vars

\* ------------------------------------------- engine callbacks during a drive
InDrive == ctx.pc = "drive"

\* CurlTimerCallback -> SetTimer
SetTimer(timeout_ms) ==
    /\ InDrive
    /\ TimerRoom(timer_, <<timeout_ms>>)
    /\ timer_' = SetTimerState(timer_, timeout_ms)
    /\ last' = Step("SetTimer", "-", "-", "-", 0, timeout_ms, TRUE, SetTimerCalls(timeout_ms))
    /\ UNCHANGED <<running_connections_, conn_vars, engine_vars, watch_vars, ctx, count_vars>>
    /\ UNCHANGED own_vars

\* CurlSocketCallback -> WatchSocket, with the pointer the engine stored for
\* the socket.  forget: after a remove the engine drops its entry of the socket.
WatchSocket(socket, action, forget) ==
    LET tag == socket_pointer[socket]
        calls == WatchSocketCalls(socket, action, tag)
        W == Collect(ApplyWatcherCalls(WatcherState, calls), ctx.w)
    IN
    /\ InDrive
    /\ IF action = "CURL_POLL_REMOVE" THEN TRUE
       ELSE IF socket \in sockets_ THEN FreeSlots(watcher_obj) # {} ELSE forget = FALSE
    /\ IF action = "CURL_POLL_REMOVE" THEN TRUE ELSE forget = FALSE
    /\ sockets_' = W.sockets
    /\ watchers_' = W.watchers
    /\ watcher_obj' = W.objs
    /\ socket_pointer' = [socket_pointer EXCEPT ![socket] =
                             IF forget THEN 0 ELSE WatchSocketPointer(calls, tag)]
    /\ watch_issued' = [watch_issued EXCEPT ![socket] = WatchIssued(@, calls, tag)]
    /\ last' = Step("WatchSocket", "-", socket, action, tag, 0, TRUE, calls)
    /\ ctx' = IF \E k \in DOMAIN calls : calls[k].f = "StopWatching"
              THEN IF StopWatchingFaults(WatcherState, socket)
                   THEN [ctx EXCEPT !.pc = "fault"] ELSE ctx
              ELSE ctx
    /\ UNCHANGED <<running_connections_, conn_vars, multi_handles, msg_queue, timer_,
                   start_count, finish_count, abort_count, phase>>
    /\ UNCHANGED own_vars

\* CurlOpenSocketCallback -> Connection::OpenSocket -> SocketFactory::Open
OpenSocket(socket) ==
    /\ InDrive
    /\ socket \notin sockets_
    /\ sockets_' = AsioOpen(WatcherState, socket).sockets
    /\ last' = EnvStep("OpenSocket")
    /\ UNCHANGED <<running_connections_, conn_vars, engine_vars, timer_, watchers_, watcher_obj, ctx, count_vars>>
    /\ UNCHANGED own_vars

\* CurlCloseSocketCallback -> Connection::CloseSocket -> SocketFactory::Close
CloseSocket(socket) ==
    LET W == Collect(AsioClose(WatcherState, socket), ctx.w) IN
    /\ InDrive
    /\ socket \in sockets_
    /\ sockets_' = W.sockets
    /\ watchers_' = W.watchers
    /\ watcher_obj' = W.objs
    /\ last' = EnvStep("CloseSocket")
    /\ UNCHANGED <<running_connections_, conn_vars, engine_vars, timer_, ctx, count_vars>>
    /\ UNCHANGED own_vars

\* a transfer the engine holds and has not reported yet: the engine reports
\* one completion for each submission of a handle
Transferring(c) ==
    /\ CHandle[c] \in multi_handles
    /\ phase[c] = "running"
    /\ \A k \in DOMAIN msg_queue :
          ~(msg_queue[k].easy_handle = CHandle[c] /\ msg_queue[k].run = start_count[c])

\* the engine finishes a transfer it holds: a CURLMSG_DONE message is queued.
\* run: the StartConnection call that submitted the transfer (the message of
\* the engine carries the easy handle only).
EngineComplete(easy_handle, result) ==
    /\ InDrive
    /\ easy_handle \in multi_handles
    /\ Len(msg_queue) < MaxQueue
    /\ \E c \in Conns :
          /\ CHandle[c] = easy_handle
          /\ msg_queue' = Append(msg_queue, [easy_handle |-> easy_handle, result |-> result,
                                             run |-> start_count[c]])
    /\ last' = EnvStep("EngineComplete")
    /\ UNCHANGED <<running_connections_, conn_vars, multi_handles, socket_pointer, timer_,
                   watch_vars, ctx, count_vars>>
    /\ UNCHANGED own_vars

\* ----------------------------------------------------- Connection data path
RequestBodyLength == 2  \* request_body_.length()
BufferSize == 2         \* size * nitems of the buffer the engine reads into
SizeBits == 3           \* width of std::size_t and of curl_off_t
Min(a, b) == IF a < b THEN a ELSE b

\* arithmetic of std::size_t: a value converted to the unsigned type
SizeT(x) == x % (2 ^ SizeBits)
\* the values of curl_off_t (signed, of the same width)
Offsets == (0 - 2 ^ (SizeBits - 1)) .. (2 ^ (SizeBits - 1) - 1)

\* Connection::ReadBody without a read callback: the bytes handed out
ReadBodyLength(cursor, expected_length) ==
    Min(SizeT(RequestBodyLength - cursor), expected_length)

\* CurlReadBodyCallback -> ReadBody: the engine asks for the next
\* expected_length bytes of the request body
ReadBody(c, expected_length) ==
    LET cursor == request_body_read_length_[c]
        actual_length == ReadBodyLength(cursor, expected_length) IN
    /\ InDrive
    /\ CHandle[c] \in multi_handles
    /\ request_body_read_length_' = [request_body_read_length_ EXCEPT ![c] =
                                        SizeT(cursor + actual_length)]
    /\ last' = Step("ReadBody", c, "-", "-", cursor, expected_length, TRUE,
                    <<Call("memcpy", "-", "-", actual_length)>>)
    /\ UNCHANGED <<running_connections_, result_, response_header_, response_body_, engine_vars,
                   timer_, watch_vars, ctx, count_vars, http_vars>>
    /\ UNCHANGED own_vars

\* ------------------------------------------------ Connection::SeekBody
SeekWhence == {"SEEK_SET", "SEEK_CUR", "SEEK_END"}

\* CurlSeekBodyCallback, the switch on origin: the SeekOrigin it selects
SeekOriginOf(origin) ==
    CASE origin = "SEEK_SET" -> "Begin"
      [] origin = "SEEK_CUR" -> "Current"
      [] origin = "SEEK_END" -> "End"

\* CurlSeekBodyCallback, the switch on origin: whether control leaves the
\* switch and reaches the call of SeekBody.  case SEEK_END has no break and
\* runs into default, which returns 1.
ReachesSeekBody(origin) == origin \in {"SEEK_SET", "SEEK_CUR"}

\* SeekBody without a read callback: original_position
OriginalPosition(seek_origin, cursor) ==
    CASE seek_origin = "Begin" -> 0
      [] seek_origin = "Current" -> cursor
      [] seek_origin = "End" -> RequestBodyLength

\* SeekBody: new_read_length, computed in std::size_t
NewReadLengthSigned(seek_origin, cursor, offset) ==
    OriginalPosition(seek_origin, cursor) + offset
NewReadLength(seek_origin, cursor, offset) ==
    SizeT(OriginalPosition(seek_origin, cursor) + offset)

\* SeekBody: is_succeeded and the cursor afterwards
SeekBody(seek_origin, cursor, offset) ==
    LET new_read_length == NewReadLength(seek_origin, cursor, offset) IN
    IF new_read_length <= RequestBodyLength
    THEN [is_succeeded |-> TRUE, cursor |-> new_read_length]
    ELSE [is_succeeded |-> FALSE, cursor |-> cursor]

\* the engine asks to reposition the request body (CURLOPT_SEEKFUNCTION)
CurlSeekBodyCallback(c, offset, origin) ==
    LET cursor == request_body_read_length_[c]
        seek == SeekBody(SeekOriginOf(origin), cursor, offset) IN
    /\ InDrive
    /\ CHandle[c] \in multi_handles
    /\ IF ReachesSeekBody(origin)
       THEN /\ request_body_read_length_' = [request_body_read_length_ EXCEPT ![c] = seek.cursor]
            /\ last' = Step("CurlSeekBodyCallback", c, "-", origin, cursor, offset,
                            seek.is_succeeded,
                            <<Call("SeekBody", "-", SeekOriginOf(origin), offset)>>)
       ELSE /\ UNCHANGED request_body_read_length_
            /\ last' = Step("CurlSeekBodyCallback", c, "-", origin, cursor, offset, FALSE, <<>>)
    /\ UNCHANGED <<running_connections_, result_, response_header_, response_body_, engine_vars,
                   timer_, watch_vars, ctx, count_vars, http_vars>>
    /\ UNCHANGED own_vars

\* the header lines the engine passes to the header callback, one line a
\* call: a line is written as its parts between ": "; every line ends in
\* "\r\n".  The status line, a field line, and the empty line that ends the
\* header.
StatusLine == <<"HTTP/1.1 200 OK">>
HeaderLines == {StatusLine, <<"Content-Type", "text/html">>, <<>>}

\* Connection::WriteHeader without a write header callback
WriteHeader(c, header) ==
    /\ InDrive
    /\ CHandle[c] \in multi_handles
    /\ Len(response_header_[c]) < MaxChunks
    /\ response_header_' = [response_header_ EXCEPT ![c] = Append(@, header)]
    /\ last' = EnvStep("WriteHeader")
    /\ UNCHANGED <<running_connections_, result_, request_body_read_length_, response_body_,
                   engine_vars, timer_, watch_vars, ctx, count_vars, http_vars>>
    /\ UNCHANGED own_vars

\* Connection::WriteBody without a write body callback
WriteBody(c) ==
    /\ InDrive
    /\ CHandle[c] \in multi_handles
    /\ Len(response_body_[c]) < MaxChunks
    /\ response_body_' = [response_body_ EXCEPT ![c] = Append(@, "b")]
    /\ last' = EnvStep("WriteBody")
    /\ UNCHANGED <<running_connections_, result_, request_body_read_length_, response_header_,
                   engine_vars, timer_, watch_vars, ctx, count_vars, http_vars>>
    /\ UNCHANGED own_vars

\* ------------------------------------------ HttpConnection::GetResponseHeaders
\* ParseResponseHeaders: every line with at least two parts between ": "
\* is inserted with its first part as the key and its second as the value
RECURSIVE ParsedFields(_)
ParsedFields(lines) ==
    IF lines = <<>> THEN EmptyBag
    ELSE (IF Len(Head(lines)) >= 2
          THEN SetToBag({<<Head(lines)[1], Head(lines)[2]>>})
          ELSE EmptyBag) (+) ParsedFields(Tail(lines))
ParseResponseHeaders(text, headers) == headers (+) ParsedFields(text)

\* the caller asks for the parsed response headers, from the event loop or
\* from a finished callback
GetResponseHeaders(c) ==
    /\ InCaller
    /\ CallerCanName(c)
    /\ IF ~has_parsed_response_headers_[c]
       THEN /\ response_headers_' = [response_headers_ EXCEPT ![c] =
                                        ParseResponseHeaders(response_header_[c], @)]
            /\ has_parsed_response_headers_' = [has_parsed_response_headers_ EXCEPT ![c] = TRUE]
       ELSE UNCHANGED http_vars
    /\ last' = Step("GetResponseHeaders", c, "-", "-", 0, 0, ~has_parsed_response_headers_[c], <<>>)
    /\ UNCHANGED <<running_connections_, result_, request_body_read_length_, response_header_,
                   response_body_, engine_vars, timer_, watch_vars, ctx, count_vars, own_vars>>

\* curl_multi_socket_action returns; CheckFinishedConnections begins
DriveReturn ==
    /\ InDrive
    /\ ctx' = [ctx EXCEPT !.pc = "drain"]
    /\ last' = EnvStep("DriveReturn")
    /\ UNCHANGED <<running_connections_, conn_vars, engine_vars, timer_, watch_vars, count_vars>>
    /\ UNCHANGED own_vars

\* ------------------------------- ConnectionManager::CheckFinishedConnections
\* Connection::DidFinish: the result the connection holds afterwards
DidFinishResultKept(old, result) == old
DidFinishResultOk(old, result) == "CURLE_OK"
DidFinish(old, result) == result

\* whether a message read from the engine is dispatched to a connection
DispatchesNever(running, msg) == FALSE
Dispatches(running, msg) == msg.easy_handle \in DOMAIN running

\* running_connections_.erase(iterator) in CheckFinishedConnections
RunningAfterFinishKept(running, easy_handle) == running
RunningAfterFinish(running, easy_handle) == MapErase(running, easy_handle)

\* Connection::DidFinish after it stored the result: the finished callback
\* runs if one is set, else the loop goes on
AfterDidFinishLeave(c, connection) ==
    IF HasFinishedCallback[connection] THEN [c EXCEPT !.pc = "callback", !.cb = connection]
    ELSE IF c.h = "SocketEventTriggered" THEN [c EXCEPT !.pc = "rearm"] ELSE Idle
AfterDidFinish(c, connection) ==
    IF HasFinishedCallback[connection] THEN [c EXCEPT !.pc = "callback", !.cb = connection] ELSE c

\* where the handler goes once curl_multi_info_read returned nothing
AfterDrain(c) == IF c.h = "SocketEventTriggered" THEN [c EXCEPT !.pc = "rearm"] ELSE Idle

\* a message for a handle that is not running: the loop goes on
AfterDiscardLeave(c) == AfterDrain(c)
AfterDiscard(c) == c

\* curl_multi_info_read takes the message it returns off the queue
QueueAfterReadKept(q) == q
QueueAfterRead(q) == Tail(q)

\* one turn of the loop: read one message (or none and leave the loop)
CheckFinishedConnections ==
    /\ ctx.pc = "drain"
    /\ IF msg_queue = <<>>
       THEN /\ ctx' = AfterDrain(ctx)
            /\ last' = Step("CheckFinishedConnections", "-", "-", "-", 0, 0, FALSE, <<>>)
            /\ UNCHANGED <<running_connections_, result_, msg_queue, finish_count, phase>>
       ELSE LET msg == Head(msg_queue) IN
            /\ msg_queue' = QueueAfterRead(msg_queue)
            /\ IF Dispatches(running_connections_, msg)
               THEN LET connection == running_connections_[msg.easy_handle] IN
                    /\ running_connections_' = RunningAfterFinish(running_connections_, msg.easy_handle)
                    /\ result_' = [result_ EXCEPT ![connection] = DidFinish(@, msg.result)]
                    /\ finish_count' = [finish_count EXCEPT ![connection] = @ + 1]
                    /\ phase' = [phase EXCEPT ![connection] = "finished"]
                    /\ ctx' = AfterDidFinish([ctx EXCEPT !.done = @ + 1], connection)
                    /\ last' = Step("CheckFinishedConnections", connection, "-", msg.result,
                                    msg.run, 0, TRUE, <<Call("DidFinish", connection, msg.result, 0)>>)
               ELSE /\ last' = Step("CheckFinishedConnections", HandleConn(msg.easy_handle), "-",
                                    msg.result, msg.run, 0, FALSE, <<>>)
                    /\ ctx' = AfterDiscard(ctx)
                    /\ UNCHANGED <<running_connections_, result_, finish_count, phase>>
    \* the copy `connection` goes out of scope at the end of the loop body
    /\ destroyed' = Released(destroyed, running_connections_', caller_ref,
                             IF ctx'.pc = "callback" THEN ctx'.cb ELSE "-")
    /\ multi_handles' = HandlesAfterCleanup(multi_handles, destroyed')
    /\ UNCHANGED <<request_body_read_length_, response_header_, response_body_, http_vars,
                   socket_pointer, timer_, watch_vars, start_count, abort_count, watch_issued,
                   caller_ref>>

\* the finished callback returns to DidFinish, which returns to the loop
AfterCallbackLeave(c) == AfterDrain(c)
AfterCallback(c) == [c EXCEPT !.pc = "drain", !.cb = "-"]
FinishedCallbackReturn ==
    /\ ctx.pc = "callback"
    /\ ctx' = AfterCallback(ctx)
    /\ last' = EnvStep("FinishedCallbackReturn")
    /\ destroyed' = Released(destroyed, running_connections_, caller_ref, "-")
    /\ multi_handles' = HandlesAfterCleanup(multi_handles, destroyed')
    /\ UNCHANGED <<running_connections_, conn_vars, msg_queue, socket_pointer, timer_, watch_vars,
                   count_vars, caller_ref>>

\* ------------------------------------------------------- event loop: sockets
BadSocket == "CURL_SOCKET_BAD"
Dir(o, can_write) == IF can_write THEN o.wr ELSE o.rd
SetDir(o, can_write, q) == IF can_write THEN [o EXCEPT !.wr = q] ELSE [o EXCEPT !.rd = q]

\* a pending wait completes because the socket is ready: its handler is queued
SocketReady(i, can_write) ==
    /\ ctx.pc = "idle"
    /\ watcher_obj[i].used
    /\ Dir(watcher_obj[i], can_write).waiting > 0
    /\ watcher_obj' = [watcher_obj EXCEPT ![i] =
          SetDir(@, can_write, [Dir(@, can_write) EXCEPT !.waiting = @ - 1, !.ready = @ + 1])]
    /\ last' = EnvStep("SocketReady")
    /\ UNCHANGED <<running_connections_, conn_vars, engine_vars, timer_, sockets_, watchers_,
                   ctx, count_vars>>
    /\ UNCHANGED own_vars

\* whether the waits a later re-arm of watcher o issues stay within MaxWaits
RearmRoom(o, can_write) ==
    /\ IF WatchRead(o.event) THEN WaitTotal(o.rd) - (IF can_write THEN 0 ELSE 1) < MaxWaits ELSE TRUE
    /\ IF WatchWrite(o.event) THEN WaitTotal(o.wr) - (IF can_write THEN 1 ELSE 0) < MaxWaits ELSE TRUE

\* AsioSingleSocketWatcher::EventTriggered up to the callback, which is
\* ConnectionManager::SocketEventTriggered and drives the engine
EventTriggeredRuns(error) == error # "operation_aborted"

\* ConnectionManager::SocketEventTriggered: the action passed to the engine
SocketActionRead(can_write) == "CURL_CSELECT_IN"
SocketAction(can_write) == IF can_write THEN "CURL_CSELECT_OUT" ELSE "CURL_CSELECT_IN"

EventTriggered(i, can_write, error) ==
    LET o == watcher_obj[i]
        q == Dir(o, can_write)
        q1 == IF error = "operation_aborted" THEN [q EXCEPT !.aborted = @ - 1]
                                              ELSE [q EXCEPT !.ready = @ - 1]
        socket == IF o.open THEN o.socket ELSE BadSocket
    IN
    /\ ctx.pc = "idle"
    /\ o.used
    /\ IF error = "operation_aborted" THEN q.aborted > 0 ELSE q.ready > 0
    /\ IF EventTriggeredRuns(error)
       THEN /\ RearmRoom(o, can_write)
            /\ watcher_obj' = [watcher_obj EXCEPT ![i] = SetDir(o, can_write, q1)]
            /\ ctx' = [h |-> "SocketEventTriggered", pc |-> "drive", w |-> i, cw |-> can_write,
                       socket |-> socket, cb |-> "-", done |-> 0]
            /\ last' = Step("SocketEventTriggered", "-", socket, SocketAction(can_write), 0, 0, TRUE,
                            <<Call("curl_multi_socket_action", socket, SocketAction(can_write), 0)>>)
       ELSE /\ watcher_obj' = Collect([WatcherState EXCEPT !.objs =
                                  [watcher_obj EXCEPT ![i] = SetDir(o, can_write, q1)]], 0).objs
            /\ ctx' = ctx
            /\ last' = EnvStep("EventTriggered")
    /\ UNCHANGED <<running_connections_, conn_vars, engine_vars, timer_, sockets_, watchers_, count_vars>>
    /\ UNCHANGED own_vars

\* AsioSingleSocketWatcher::EventTriggered after the callback returned
RearmsNever(o) == FALSE
Rearms(o) == ~o.is_stopped

EventTriggeredRearm ==
    LET i == ctx.w
        o == watcher_obj[i]
        objs == IF Rearms(o) THEN [watcher_obj EXCEPT ![i] = SingleWatch(o)] ELSE watcher_obj
    IN
    /\ ctx.pc = "rearm"
    /\ watcher_obj' = Collect([WatcherState EXCEPT !.objs = objs], 0).objs
    /\ ctx' = Idle
    /\ last' = Step("EventTriggered", "-", o.socket, "-", 0, 0, Rearms(o), <<>>)
    /\ UNCHANGED <<running_connections_, conn_vars, engine_vars, timer_, sockets_, watchers_, count_vars>>
    /\ UNCHANGED own_vars

\* ------------------------------------------- SocketWatcher called directly
\* AsioSocketManager::Watch called by a holder of the shared socket manager
\* other than ConnectionManager::WatchSocket (no StopWatching before it)
WatchEvents == {"Read", "Write", "ReadWrite"}
Watch(socket, event) ==
    LET W == Collect(AsioWatch(WatcherState, socket, event), 0) IN
    /\ ctx.pc = "idle"
    /\ IF socket \in sockets_ THEN FreeSlots(watcher_obj) # {} ELSE TRUE
    /\ sockets_' = W.sockets
    /\ watchers_' = W.watchers
    /\ watcher_obj' = W.objs
    /\ last' = Step("Watch", "-", socket, event, 0, 0, TRUE, <<>>)
    /\ UNCHANGED <<running_connections_, conn_vars, engine_vars, timer_, ctx, count_vars, own_vars>>

\* ------------------------------------------------------------ ownership
\* the caller resets its shared_ptr to the connection
DropReference(c) ==
    /\ InCaller
    /\ caller_ref[c]
    /\ caller_ref' = [caller_ref EXCEPT ![c] = FALSE]
    /\ destroyed' = Released(destroyed, running_connections_, caller_ref', LocalConnection)
    /\ multi_handles' = HandlesAfterCleanup(multi_handles, destroyed')
    /\ last' = Step("DropReference", c, "-", "-", 0, 0, TRUE, <<>>)
    /\ UNCHANGED <<running_connections_, conn_vars, msg_queue, socket_pointer, timer_, watch_vars,
                   ctx, count_vars>>

\* ConnectionManager::~ConnectionManager: the body is empty, then the members
\* are destroyed: running_connections_ releases its shared_ptrs; multi_handle_
\* is a raw pointer and is left as it is.
DestructorCalls == <<>>
Destructor ==
    /\ ctx.pc = "idle"
    /\ running_connections_' = <<>>
    /\ destroyed' = Released(destroyed, running_connections_', caller_ref, "-")
    /\ multi_handles' = HandlesAfterCleanup(multi_handles, destroyed')
    /\ ctx' = [Idle EXCEPT !.pc = "destroyed"]
    /\ last' = Step("~ConnectionManager", "-", "-", "-", 0, 0, TRUE, DestructorCalls)
    /\ UNCHANGED <<conn_vars, msg_queue, socket_pointer, timer_, watch_vars, count_vars, caller_ref>>

\* a wait handler that elapsed before the destructor ran calls
\* ConnectionManager::TimerTriggered through the `this` bound in SetTimer: the
\* object is gone, the behaviour is undefined and nothing is said about it.
TimerTriggeredDangling ==
    /\ ctx.pc = "destroyed"
    /\ timer_.expired > 0
    /\ timer_' = [timer_ EXCEPT !.expired = @ - 1]
    /\ ctx' = [ctx EXCEPT !.pc = "undefined"]
    /\ last' = Step("TimerTriggered", "-", "-", "-", 0, 0, FALSE, <<>>)
    /\ UNCHANGED <<running_connections_, conn_vars, engine_vars, watch_vars, count_vars, own_vars>>

\* --------------------------------------------------------------------- Next
Errors == {"success", "operation_aborted"}

\* Transfer lifecycle: two connections, the engine driven by the timer and by
\* one socket that the engine announces once for reading; the engine asks for
\* a 0 ms timeout whenever a handle is added (as curl_multi_add_handle does).
Next ==
    \/ \E c \in Conns, req \in {<<>>, <<0>>} :
          /\ (req = <<>>) = (CHandle[c] \in DOMAIN running_connections_)
          /\ StartRoom(c)
          /\ StartConnection(c, req)
    \/ \E c \in Conns, purge \in BOOLEAN : AbortConnection(c, purge)
    \/ TimerElapse
    \/ \E error \in Errors : AsioTimerTriggered(error)
    \/ \E h \in Handles, r \in Results : EngineComplete(h, r)
    \/ DriveReturn
    \/ CheckFinishedConnections
    \/ FinishedCallbackReturn
    \/ \E s \in Sockets : OpenSocket(s)
    \/ \E s \in Sockets : socket_pointer[s] = 0 /\ WatchSocket(s, "CURL_POLL_IN", FALSE)
    \/ \E i \in 1..MaxWatchers : SocketReady(i, FALSE)
    \/ \E i \in 1..MaxWatchers : EventTriggered(i, FALSE, "success")
    \/ EventTriggeredRearm

Spec == Init /\ [][Next]_vars

\* Transient state of a connection: one connection, the engine driven by the
\* timer, the data callbacks of the engine.
NextData ==
    \/ \E req \in TimerRequests : StartConnection("A", req)
    \/ \E purge \in BOOLEAN : AbortConnection("A", purge)
    \/ TimerElapse
    \/ \E error \in Errors : AsioTimerTriggered(error)
    \/ \E ms \in Deadlines : SetTimer(ms)
    \/ \E r \in Results : EngineComplete(CHandle["A"], r)
    \/ request_body_read_length_["A"] < RequestBodyLength /\ ReadBody("A", BufferSize)
    \/ WriteHeader("A", StatusLine)
    \/ WriteBody("A")
    \/ DriveReturn
    \/ CheckFinishedConnections
    \/ FinishedCallbackReturn

SpecData == Init /\ [][NextData]_vars

\* The timer alone, under the scheduling of io_service::run: a handler that
\* is queued is run, a pending deadline passes, and a handler that runs
\* returns.
NextTimer ==
    \/ \E req \in TimerRequests : StartConnection("A", req)
    \/ \E purge \in BOOLEAN : AbortConnection("A", purge)
    \/ TimerElapse
    \/ \E error \in Errors : AsioTimerTriggered(error)
    \/ \E ms \in Deadlines : SetTimer(ms)
    \/ \E r \in Results : EngineComplete(CHandle["A"], r)
    \/ DriveReturn
    \/ CheckFinishedConnections
    \/ FinishedCallbackReturn

FairTimer ==
    /\ SF_vars(TimerElapse)
    /\ SF_vars(AsioTimerTriggered("success"))
    /\ SF_vars(AsioTimerTriggered("operation_aborted"))
    /\ WF_vars(DriveReturn)
    /\ WF_vars(CheckFinishedConnections)
    /\ WF_vars(FinishedCallbackReturn)
SpecTimer == Init /\ [][NextTimer]_vars /\ FairTimer

\* Socket bridging: one connection that stays running, the engine driven by
\* the timer, every socket callback of the engine.
NextWatch ==
    \/ \E req \in TimerRequests : StartConnection("A", req)
    \/ TimerElapse
    \/ \E error \in Errors : AsioTimerTriggered(error)
    \/ \E ms \in Deadlines : SetTimer(ms)
    \/ \E s \in Sockets, a \in PollActions, forget \in BOOLEAN : WatchSocket(s, a, forget)
    \/ \E s \in Sockets : OpenSocket(s)
    \/ \E s \in Sockets : CloseSocket(s)
    \/ DriveReturn
    \/ CheckFinishedConnections
    \/ \E i \in 1..MaxWatchers, cw \in BOOLEAN : EventTriggered(i, cw, "operation_aborted")

SpecWatch == Init /\ [][NextWatch]_vars

\* Ownership: two connections whose caller may drop its shared_ptr at any
\* time, the engine driven by the timer, and the destruction of the manager.
NextOwn ==
    \/ \E c \in Conns, req \in {<<>>, <<0>>} :
          /\ (req = <<>>) = (CHandle[c] \in DOMAIN running_connections_)
          /\ StartRoom(c)
          /\ StartConnection(c, req)
    \/ \E c \in Conns, purge \in BOOLEAN : AbortConnection(c, purge)
    \/ \E c \in Conns : DropReference(c)
    \/ TimerElapse
    \/ \E error \in Errors : AsioTimerTriggered(error)
    \/ \E h \in Handles, r \in Results : EngineComplete(h, r)
    \/ DriveReturn
    \/ CheckFinishedConnections
    \/ FinishedCallbackReturn
    \/ Destructor
    \/ TimerTriggeredDangling

SpecOwn == Init /\ [][NextOwn]_vars

\* The asio watcher under the reactor: one connection that stays running, one
\* socket, every interest change of the engine, and the wait handlers of both
\* directions completing with and without operation_aborted.
NextAsio ==
    \/ StartConnection("A", <<0>>)
    \/ TimerElapse
    \/ \E error \in Errors : AsioTimerTriggered(error)
    \/ \E s \in Sockets : OpenSocket(s)
    \/ \E s \in Sockets, a \in PollActions, forget \in BOOLEAN : WatchSocket(s, a, forget)
    \/ DriveReturn
    \/ CheckFinishedConnections
    \/ \E i \in 1..MaxWatchers, cw \in BOOLEAN : SocketReady(i, cw)
    \/ \E i \in 1..MaxWatchers, cw \in BOOLEAN, error \in Errors : EventTriggered(i, cw, error)
    \/ EventTriggeredRearm

SpecAsio == Init /\ [][NextAsio]_vars

\* The scheduling of io_service::run with a socket that stays ready: a pending
\* wait completes, a queued handler is run, and a handler that runs returns.
FairAsio ==
    /\ SF_vars(\E i \in 1..MaxWatchers, cw \in BOOLEAN : SocketReady(i, cw))
    /\ SF_vars(\E i \in 1..MaxWatchers, cw \in BOOLEAN : EventTriggered(i, cw, "success"))
    /\ WF_vars(DriveReturn)
    /\ WF_vars(CheckFinishedConnections)
    /\ WF_vars(EventTriggeredRearm)

\* Notification: the engine announces the socket with any interest, later
\* changes the interest to one direction or removes it.
NextNotify ==
    \/ StartConnection("A", <<0>>)
    \/ TimerElapse
    \/ \E error \in Errors : AsioTimerTriggered(error)
    \/ \E s \in Sockets : OpenSocket(s)
    \/ \E s \in Sockets, a \in PollActions :
          /\ (a = "CURL_POLL_INOUT") => socket_pointer[s] = 0
          /\ WatchSocket(s, a, FALSE)
    \/ DriveReturn
    \/ CheckFinishedConnections
    \/ \E i \in 1..MaxWatchers, cw \in BOOLEAN : SocketReady(i, cw)
    \/ \E i \in 1..MaxWatchers, cw \in BOOLEAN, error \in Errors : EventTriggered(i, cw, error)
    \/ EventTriggeredRearm

SpecNotify == Init /\ [][NextNotify]_vars /\ FairAsio

\* The asio watcher under the reactor and under a second caller of the
\* SocketWatcher interface.
NextWatcher ==
    \/ NextAsio
    \/ \E s \in Sockets, e \in WatchEvents : Watch(s, e)

SpecWatcher == Init /\ [][NextWatcher]_vars

\* One transfer end to end: A is started, the engine announces S1 for reading
\* during the first timer drive, S1 becomes readable, the engine reports A as
\* done with CURLE_OK during a socket drive and removes its interest in S1.
\* A handler that runs returns.
NextScenario ==
    \/ start_count["A"] = 0 /\ ctx.pc = "idle" /\ StartConnection("A", <<0>>)
    \/ TimerElapse
    \/ \E error \in Errors : AsioTimerTriggered(error)
    \/ \E s \in Sockets : OpenSocket(s)
    \/ \E s \in Sockets : socket_pointer[s] = 0 /\ WatchSocket(s, "CURL_POLL_IN", FALSE)
    \/ \E s \in Sockets, forget \in BOOLEAN :
          socket_pointer[s] = kIsNotNewSocketTag /\ WatchSocket(s, "CURL_POLL_REMOVE", forget)
    \/ ctx.h = "SocketEventTriggered" /\ EngineComplete(CHandle["A"], "CURLE_OK")
    \/ DriveReturn
    \/ CheckFinishedConnections
    \/ FinishedCallbackReturn
    \/ \E i \in 1..MaxWatchers : SocketReady(i, FALSE)
    \/ \E i \in 1..MaxWatchers, error \in Errors : EventTriggered(i, FALSE, error)
    \/ EventTriggeredRearm

\* Driving: one transfer that is started and aborted at will, the timer, one
\* socket that is announced with any interest and removed, and the timer and
\* socket callbacks of the engine during a drive.
NextDrive ==
    \/ StartConnection("A", <<0>>)
    \/ AbortConnection("A", TRUE)
    \/ TimerElapse
    \/ \E error \in Errors : AsioTimerTriggered(error)
    \/ \E ms \in {-1, 0} : SetTimer(ms)
    \/ \E s \in Sockets : OpenSocket(s)
    \/ \E s \in Sockets, a \in PollActions :
          /\ (a # "CURL_POLL_REMOVE") => socket_pointer[s] = 0
          /\ WatchSocket(s, a, FALSE)
    \/ EngineComplete(CHandle["A"], "CURLE_OK")
    \/ DriveReturn
    \/ CheckFinishedConnections
    \/ FinishedCallbackReturn
    \/ \E i \in 1..MaxWatchers, cw \in BOOLEAN : SocketReady(i, cw)
    \/ \E i \in 1..MaxWatchers, cw \in BOOLEAN, error \in Errors : EventTriggered(i, cw, error)
    \/ EventTriggeredRearm

SpecDrive == Init /\ [][NextDrive]_vars

\* Draining: two connections started and aborted from the caller and from
\* finished callbacks, the engine driven by the timer.
NextDrain ==
    \/ \E c \in Conns, req \in {<<>>, <<0>>} :
          /\ (req = <<>>) = (CHandle[c] \in DOMAIN running_connections_)
          /\ StartRoom(c)
          /\ StartConnection(c, req)
    \/ \E c \in Conns, purge \in BOOLEAN : AbortConnection(c, purge)
    \/ TimerElapse
    \/ \E error \in Errors : AsioTimerTriggered(error)
    \/ \E h \in Handles, r \in Results : EngineComplete(h, r)
    \/ DriveReturn
    \/ CheckFinishedConnections
    \/ FinishedCallbackReturn

FairHandlers ==
    /\ WF_vars(DriveReturn)
    /\ WF_vars(CheckFinishedConnections)
    /\ WF_vars(FinishedCallbackReturn)
    /\ WF_vars(EventTriggeredRearm)
SpecScenario == Init /\ [][NextScenario]_vars /\ FairHandlers
SpecDrain == Init /\ [][NextDrain]_vars /\ FairHandlers

\* Runs of a transfer: two connections started and aborted from the caller and
\* from finished callbacks, the engine driven by the timer; the engine reports
\* each submission of a handle once, and curl_multi_remove_handle may or may
\* not take the message it had queued for the handle with it.
NextStale ==
    \/ \E c \in Conns, req \in {<<>>, <<0>>} :
          /\ (req = <<>>) = (CHandle[c] \in DOMAIN running_connections_)
          /\ StartConnection(c, req)
    \/ \E c \in Conns, purge \in BOOLEAN : AbortConnection(c, purge)
    \/ TimerElapse
    \/ \E error \in Errors : AsioTimerTriggered(error)
    \/ \E c \in Conns, r \in Results : Transferring(c) /\ EngineComplete(CHandle[c], r)
    \/ DriveReturn
    \/ CheckFinishedConnections
    \/ FinishedCallbackReturn

SpecStale == Init /\ [][NextStale]_vars

\* Request body: one connection started, finished and started again, the
\* engine driven by the timer; during a drive the engine reads the request
\* body into buffers of any size and asks to reposition it.
NextBody ==
    \/ StartConnection("A", <<0>>)
    \/ TimerElapse
    \/ AsioTimerTriggered("success")
    \/ \E expected_length \in 1..BufferSize : ReadBody("A", expected_length)
    \/ \E offset \in Offsets, origin \in SeekWhence : CurlSeekBodyCallback("A", offset, origin)
    \/ EngineComplete(CHandle["A"], "CURLE_OK")
    \/ DriveReturn
    \/ CheckFinishedConnections
    \/ FinishedCallbackReturn

SpecBody == Init /\ [][NextBody]_vars

\* Response headers: one connection started, finished and started again, the
\* engine driven by the timer, which it arms again during a drive, and
\* writing the header lines of a transfer until it reports the transfer
\* complete; the caller asks for the parsed headers whenever it runs.
NextHeaders ==
    \/ StartConnection("A", <<0>>)
    \/ TimerElapse
    \/ AsioTimerTriggered("success")
    \/ SetTimer(0)
    \/ \E header \in HeaderLines : Transferring("A") /\ WriteHeader("A", header)
    \/ Transferring("A") /\ EngineComplete(CHandle["A"], "CURLE_OK")
    \/ DriveReturn
    \/ CheckFinishedConnections
    \/ FinishedCallbackReturn
    \/ GetResponseHeaders("A")

SpecHeaders == Init /\ [][NextHeaders]_vars

\* ================================================================== claims
IsRunning(c) == CHandle[c] \in DOMAIN running_connections_
StartStep(c) == last'.op = "StartConnection" /\ last'.conn = c
AbortStep(c) == last'.op = "AbortConnection" /\ last'.conn = c
DrainReads == ctx.pc = "drain" /\ msg_queue # <<>>
WatchSocketDone == last.op = "WatchSocket"
CallsOf(f) == {k \in DOMAIN last.calls : last.calls[k].f = f}

\* C1: for every connection, the number of DidFinish invocations never
\* exceeds the number of StartConnection calls that registered it in
\* running_connections_, whatever the engine reports and whatever the finished
\* callbacks do.
C1_DidFinishAtMostOncePerStart ==
    \A c \in Conns : finish_count[c] <= start_count[c]

\* the engine reported the identity of A once more after A's DidFinish and the
\* second message was dropped
C1_Witness ==
    /\ last.op = "CheckFinishedConnections" /\ last.conn = "A" /\ ~last.hit
    /\ phase["A"] = "finished"
    /\ finish_count["A"] = 1 /\ start_count["A"] = 1

\* C2: AbortConnection on a running connection removes it from
\* running_connections_, asks the engine to remove the handle and leaves the
\* other running connections in place; and while the connection stays aborted
\* no step invokes DidFinish on it, also when the engine still delivers a
\* completion message for its handle.
C2_Step ==
    \A c \in Conns :
        /\ (AbortStep(c) /\ IsRunning(c)) =>
              /\ CHandle[c] \notin DOMAIN running_connections_'
              /\ last'.calls = <<Call("curl_multi_remove_handle", CHandle[c], "-", 0)>>
              /\ CHandle[c] \notin multi_handles'
              /\ \A d \in Conns \ {c} :
                    (CHandle[d] \in DOMAIN running_connections_') = IsRunning(d)
              /\ finish_count' = finish_count
        /\ (phase[c] = "aborted" /\ phase'[c] = "aborted") =>
              /\ finish_count'[c] = finish_count[c]
              /\ result_'[c] = result_[c]
C2_AbortIsSilent == [][C2_Step]_vars

\* B was aborted while its completion message was queued; the message was
\* read later and dropped
C2_Witness ==
    /\ phase["B"] = "aborted" /\ finish_count["B"] = 0
    /\ last.op = "CheckFinishedConnections" /\ last.conn = "B" /\ ~last.hit

\* C3: StartConnection on a connection that is in running_connections_
\* changes nothing: the map, the handles the engine holds, the connection's
\* result, read cursor and response buffers stay, and no call is issued.
C3_Step ==
    \A c \in Conns :
        (StartStep(c) /\ IsRunning(c)) =>
            /\ running_connections_' = running_connections_
            /\ multi_handles' = multi_handles
            /\ last'.calls = <<>>
            /\ result_'[c] = result_[c]
            /\ request_body_read_length_'[c] = request_body_read_length_[c]
            /\ response_header_'[c] = response_header_[c]
            /\ response_body_'[c] = response_body_[c]
            /\ start_count' = start_count
C3_StartRunningIsNoOp == [][C3_Step]_vars

\* A was started again while it was running and had read its request body and
\* received header and body data
C3_Witness ==
    /\ last.op = "StartConnection" /\ last.conn = "A" /\ ~last.hit
    /\ IsRunning("A")
    /\ request_body_read_length_["A"] > 0
    /\ response_header_["A"] # <<>>
    /\ response_body_["A"] # <<>>

\* C4: AbortConnection on a connection that is not in running_connections_
\* changes nothing and issues no call (none on the engine, no callback).
C4_Step ==
    \A c \in Conns :
        (AbortStep(c) /\ ~IsRunning(c)) =>
            /\ last'.calls = <<>>
            /\ UNCHANGED <<running_connections_, conn_vars, engine_vars, timer_, watch_vars,
                           ctx, count_vars>>
C4_AbortNotRunningIsNoOp == [][C4_Step]_vars

\* A was aborted after it had finished
C4_Witness ==
    /\ last.op = "AbortConnection" /\ last.conn = "A" /\ ~last.hit
    /\ phase["A"] = "finished"

\* C5: a connection is in running_connections_ exactly when the last thing
\* that happened to it is a registering StartConnection (no abort and no
\* DidFinish since); its entry is keyed by its own easy handle; every
\* registered run is still running or was removed exactly once, by abort or by
\* completion.
C5_RunningSetInvariant ==
    /\ DOMAIN running_connections_ \subseteq Handles
    /\ \A c \in Conns :
          /\ IsRunning(c) = (phase[c] = "running")
          /\ IsRunning(c) => running_connections_[CHandle[c]] = c
          /\ start_count[c] = finish_count[c] + abort_count[c] + (IF IsRunning(c) THEN 1 ELSE 0)

\* one run of A ended by abort and another one by completion
C5_Witness ==
    /\ abort_count["A"] = 1 /\ finish_count["A"] = 1 /\ ~IsRunning("A")

\* C6: after the engine was driven the handler reads completion messages
\* until there is none: the handler only returns with an empty queue, every
\* message read is taken off the queue inside the same handler invocation, and
\* a message for a running connection produces its DidFinish there.
C6_Step ==
    /\ (ctx.pc = "drive" /\ ctx'.pc # "drive") => ctx'.pc = "drain"
    /\ (ctx.pc = "callback" /\ ctx'.pc # "callback") => ctx'.pc = "drain"
    /\ (ctx.pc = "drain" /\ ctx'.pc \in {"idle", "rearm"}) => msg_queue = <<>>
    /\ DrainReads =>
          /\ msg_queue' = Tail(msg_queue)
          /\ ctx'.pc \in {"drain", "callback"} /\ ctx'.h = ctx.h
          /\ Head(msg_queue).easy_handle \in DOMAIN running_connections_ =>
                LET c == running_connections_[Head(msg_queue).easy_handle] IN
                /\ finish_count'[c] = finish_count[c] + 1
                /\ ctx'.done = ctx.done + 1
C6_DrainsAll ==
    /\ [](ctx.pc \in {"idle", "rearm"} => msg_queue = <<>>)
    /\ [][C6_Step]_vars

\* a socket-ready handler returned after one drive had completed two transfers
C6_Witness ==
    /\ ctx.h = "SocketEventTriggered" /\ ctx.pc = "rearm" /\ ctx.done = 2

\* C7: a completion message for a handle that is not in running_connections_
\* is dropped: no DidFinish, the map and the connections' results stay, and
\* the loop stays in place to read the next message.
C7_Step ==
    (DrainReads /\ Head(msg_queue).easy_handle \notin DOMAIN running_connections_) =>
        /\ running_connections_' = running_connections_
        /\ finish_count' = finish_count
        /\ result_' = result_
        /\ phase' = phase
        /\ last'.calls = <<>>
        /\ msg_queue' = Tail(msg_queue)
        /\ ctx' = ctx
C7_UnknownCompletionDiscarded == [][C7_Step]_vars

\* a message for a handle that is not running was dropped and the next
\* message is still to be read
C7_Witness ==
    /\ last.op = "CheckFinishedConnections" /\ last.conn # "-" /\ ~last.hit
    /\ ctx.pc = "drain" /\ msg_queue # <<>>

\* C8: WatchSocket with an action other than remove: with the tag set it
\* calls StopWatching(socket) and then Watch(socket, ..), once each; without
\* the tag it calls no StopWatching, assigns the tag in the engine and calls
\* Watch once; afterwards the engine holds the tag for the socket.
C8_WatchAfterChange ==
    (WatchSocketDone /\ last.action # "CURL_POLL_REMOVE") =>
        /\ Cardinality(CallsOf("Watch")) = 1
        /\ last.calls[Len(last.calls)].f = "Watch"
        /\ last.calls[Len(last.calls)].s = last.socket
        /\ socket_pointer[last.socket] = kIsNotNewSocketTag
        /\ IF last.tag = kIsNotNewSocketTag
           THEN /\ Len(last.calls) = 2
                /\ last.calls[1] = Call("StopWatching", last.socket, "-", 0)
           ELSE /\ CallsOf("StopWatching") = {}
                /\ Cardinality(CallsOf("curl_multi_assign")) = 1

\* the interest of a socket that was watched before changed to read and write
C8_Witness ==
    /\ WatchSocketDone /\ last.action = "CURL_POLL_INOUT" /\ last.tag = kIsNotNewSocketTag
    /\ last.socket \in DOMAIN watchers_
    /\ \E i \in DOMAIN watcher_obj : watcher_obj[i].used /\ watcher_obj[i].is_stopped

\* C9: after WatchSocket with the remove action no Watch call was issued, the
\* socket has no entry in watchers_ and every watcher of the socket is stopped
\* and has no pending wait.
C9_RemoveStopsWatch ==
    (WatchSocketDone /\ last.action = "CURL_POLL_REMOVE") =>
        /\ CallsOf("Watch") = {}
        /\ last.socket \notin DOMAIN watchers_
        /\ \A i \in DOMAIN watcher_obj :
              (watcher_obj[i].used /\ watcher_obj[i].socket = last.socket) =>
                  /\ watcher_obj[i].is_stopped
                  /\ watcher_obj[i].rd.waiting = 0
                  /\ watcher_obj[i].wr.waiting = 0

\* a watch that was installed for the socket has been stopped by the remove
C9_Witness ==
    /\ WatchSocketDone /\ last.action = "CURL_POLL_REMOVE" /\ last.tag = kIsNotNewSocketTag
    /\ \E i \in DOMAIN watcher_obj :
          /\ watcher_obj[i].used /\ watcher_obj[i].socket = last.socket
          /\ watcher_obj[i].is_stopped /\ WaitTotal(watcher_obj[i].rd) > 0

\* C10 as stated: WatchSocket with the remove action calls StopWatching(socket)
\* whether or not the tag is set.
C10_Original ==
    (WatchSocketDone /\ last.action = "CURL_POLL_REMOVE") =>
        \E k \in CallsOf("StopWatching") : last.calls[k].s = last.socket

\* C10 amended: WatchSocket with the remove action calls StopWatching(socket),
\* and nothing else, when the tag is set; without the tag it only assigns the
\* tag in the engine and calls nothing on the watcher.
C10_RemoveStopsIfSeen ==
    (WatchSocketDone /\ last.action = "CURL_POLL_REMOVE") =>
        IF last.tag = kIsNotNewSocketTag
        THEN last.calls = <<Call("StopWatching", last.socket, "-", 0)>>
        ELSE last.calls = <<Call("curl_multi_assign", last.socket, "-", 0)>>

\* the engine removed a socket whose tag was not set
C10_Witness ==
    /\ WatchSocketDone /\ last.action = "CURL_POLL_REMOVE" /\ last.tag # kIsNotNewSocketTag
    /\ CallsOf("StopWatching") = {}
\* C11 as stated: WatchSocket calls StopWatching(socket) only when a Watch
\* call was issued for the socket since the engine last passed it without the
\* tag, also when the first event for the socket was a remove and the next
\* event arrives with the tag.
C11_Step ==
    (last'.op = "WatchSocket"
        /\ \E k \in DOMAIN last'.calls : last'.calls[k].f = "StopWatching") =>
            \E s \in Sockets : last'.socket = s /\ watch_issued[s]
C11_Original == [][C11_Step]_vars

TimerCalls(calls) == SelectSeq(calls, LAMBDA k : k.f \in {"Timer::Stop", "Timer::Start"})
TimerRequested == last'.op \in {"SetTimer", "StartConnection"} /\ TimerCalls(last'.calls) # <<>>

\* C12: a timer request made while the wait of the earlier request is still
\* pending cancels that wait, whose handler then never calls back: every
\* request calls Stop first and moves all pending waits to the cancelled ones,
\* at most one wait is pending at any time, a cancelled handler starts no
\* drive, and every TimerTriggered consumes one wait that elapsed uncancelled.
C12_Step ==
    /\ TimerRequested =>
          /\ TimerCalls(last'.calls)[1].f = "Timer::Stop"
          /\ timer_'.aborted = timer_.aborted + timer_.waiting
          /\ timer_'.expired = timer_.expired
          /\ timer_'.waiting + timer_'.expired <= timer_.expired + 1
    /\ timer_'.aborted < timer_.aborted =>
          /\ last'.op = "AsioTimer::TimerTriggered" /\ last'.calls = <<>>
          /\ ctx' = ctx
          /\ timer_'.expired = timer_.expired /\ timer_'.waiting = timer_.waiting
    /\ (last'.op = "TimerTriggered" /\ last' # last) =>
          /\ timer_'.expired = timer_.expired - 1
          /\ timer_'.aborted = timer_.aborted
C12_RearmCancelsEarlier ==
    /\ [](timer_.waiting <= 1)
    /\ [][C12_Step]_vars

\* the handler of a superseded wait ran without calling back while the wait of
\* the later 0 ms request is still pending
C12_Witness ==
    /\ last.op = "AsioTimer::TimerTriggered" /\ ~last.hit
    /\ timer_.waiting = 1 /\ timer_.expired = 0 /\ timer_.aborted = 0

\* C13: SetTimer with a negative timeout calls Stop only and leaves no wait
\* pending; with a timeout >= 0 (0 included) it calls Stop and then Start with
\* that timeout, once each, and one wait is pending; while no wait is pending
\* or elapsed no TimerTriggered happens.
C13_Calls ==
    /\ last.op = "SetTimer" =>
          IF last.ms < 0
          THEN /\ last.calls = <<Call("Timer::Stop", "-", "-", 0)>>
               /\ timer_.waiting = 0
          ELSE /\ last.calls = <<Call("Timer::Stop", "-", "-", 0),
                                 Call("Timer::Start", "-", "-", last.ms)>>
               /\ timer_.waiting = 1
    /\ (last.op = "StartConnection" /\ TimerCalls(last.calls) # <<>>) =>
          /\ TimerCalls(last.calls)[1] = Call("Timer::Stop", "-", "-", 0)
          /\ Len(TimerCalls(last.calls)) = (IF timer_.waiting = 1 THEN 2 ELSE 1)
          /\ Len(TimerCalls(last.calls)) = 2 => TimerCalls(last.calls)[2].f = "Timer::Start"
C13_Step ==
    (timer_.waiting = 0 /\ timer_.expired = 0) => ~(last'.op = "TimerTriggered" /\ last' # last)
C13_SetTimerStopThenStart ==
    /\ []C13_Calls
    /\ [][C13_Step]_vars

\* a negative timeout cancelled the pending wait
C13_Witness ==
    /\ last.op = "SetTimer" /\ last.ms < 0
    /\ timer_.waiting = 0 /\ timer_.aborted = 1 /\ timer_.expired = 0

\* C14: StartConnection on a connection that is not in running_connections_
\* resets its result to CURL_LAST, its read cursor to 0 and its response header
\* and body to empty, inserts it into running_connections_ and adds its handle
\* to the engine with exactly one curl_multi_add_handle call; a completion the
\* engine reports afterwards is dispatched to it.
C14_Step ==
    /\ \A c \in Conns :
          (StartStep(c) /\ ~IsRunning(c)) =>
              /\ result_'[c] = CURL_LAST
              /\ request_body_read_length_'[c] = 0
              /\ response_header_'[c] = <<>>
              /\ response_body_'[c] = <<>>
              /\ CHandle[c] \in DOMAIN running_connections_'
              /\ running_connections_'[CHandle[c]] = c
              /\ CHandle[c] \in multi_handles'
              /\ last'.calls[1] = Call("curl_multi_add_handle", CHandle[c], "-", 0)
              /\ Len(SelectSeq(last'.calls, LAMBDA k : k.f = "curl_multi_add_handle")) = 1
              /\ start_count'[c] = start_count[c] + 1
    /\ (DrainReads /\ Head(msg_queue).easy_handle \in DOMAIN running_connections_) =>
          LET c == running_connections_[Head(msg_queue).easy_handle] IN
          /\ finish_count'[c] = finish_count[c] + 1
          /\ last'.calls = <<Call("DidFinish", c, Head(msg_queue).result, 0)>>
C14_RestartResets == [][C14_Step]_vars

\* A finished (which stored a result) and was started again
C14_Witness ==
    /\ last.op = "StartConnection" /\ last.conn = "A" /\ last.hit
    /\ start_count["A"] = 2 /\ finish_count["A"] = 1
    /\ result_["A"] = CURL_LAST /\ IsRunning("A")

\* C15: a connection in running_connections_ is alive whether or not the
\* caller still holds a shared_ptr; a connection the caller has let go is
\* destroyed exactly when it is neither in running_connections_ nor held by
\* the CheckFinishedConnections that is running its DidFinish; when the
\* finished callback is entered the connection has left the map and is alive.
C15_ReactorHoldsReference ==
    /\ \A c \in Conns :
          /\ (phase[c] = "running" /\ ctx.pc \notin {"destroyed", "undefined"}) =>
                (IsRunning(c) /\ c \notin destroyed)
          /\ IsRunning(c) => c \notin destroyed
          /\ ~caller_ref[c] =>
                (c \in destroyed <=> (~IsRunning(c) /\ LocalConnection # c))
          /\ caller_ref[c] => c \notin destroyed
    /\ (ctx.pc = "callback" /\ last.op = "CheckFinishedConnections") =>
          /\ ctx.cb = last.conn
          /\ ctx.cb \notin destroyed
          /\ ~IsRunning(ctx.cb)

\* the caller dropped its shared_ptr to A while A was running; A has finished
\* and its finished callback is running
C15_Witness ==
    /\ ctx.pc = "callback" /\ ctx.cb = "A" /\ last.op = "CheckFinishedConnections"
    /\ ~caller_ref["A"] /\ "A" \notin destroyed /\ ~IsRunning("A")

\* C16 as stated: once the ConnectionManager is destroyed no connection that
\* was running is held by the engine any more (each was withdrawn).
C16_Original ==
    ctx.pc = "destroyed" =>
        \A c \in Conns : phase[c] = "running" => CHandle[c] \notin multi_handles

\* C17: when CheckFinishedConnections dispatches a message, the connection
\* has left running_connections_ and holds the reported result when its
\* finished callback is entered; the callback is entered in the same step,
\* inside the loop, for that connection; without a finished callback the
\* result is stored and the loop goes on with nothing else changed.
C17_Step ==
    (DrainReads /\ Head(msg_queue).easy_handle \in DOMAIN running_connections_) =>
        LET msg == Head(msg_queue)
            c == running_connections_[msg.easy_handle]
        IN
        /\ result_'[c] = msg.result
        /\ CHandle[c] \notin DOMAIN running_connections_'
        /\ last'.calls = <<Call("DidFinish", c, msg.result, 0)>>
        /\ \A d \in Conns \ {c} : result_'[d] = result_[d]
        /\ IF HasFinishedCallback[c]
           THEN /\ ctx'.pc = "callback" /\ ctx'.cb = c
                /\ ctx'.h = ctx.h
           ELSE /\ ctx'.pc = "drain" /\ ctx'.cb = "-"
                /\ UNCHANGED <<request_body_read_length_, response_header_, response_body_,
                               socket_pointer, timer_, watch_vars>>
C17_ResultBeforeCallback == [][C17_Step]_vars

\* the finished callback of A has just been entered with the failure the
\* engine reported
C17_Witness ==
    /\ ctx.pc = "callback" /\ ctx.cb = "A"
    /\ last.op = "CheckFinishedConnections" /\ last.hit /\ last.conn = "A"
    /\ last.action = "CURLE_COULDNT_CONNECT"
    /\ result_["A"] = "CURLE_COULDNT_CONNECT"
    /\ ~IsRunning("A")

ActiveWatchers(s) ==
    {i \in DOMAIN watcher_obj :
        watcher_obj[i].used /\ ~watcher_obj[i].is_stopped /\ watcher_obj[i].socket = s}

\* C18 as stated: once Stop has been called on a watcher, the watcher
\* invokes the callback for its socket no more and issues no new wait.
C18_RearmStep ==
    (ctx.pc = "rearm" /\ watcher_obj[ctx.w].is_stopped) =>
        /\ watcher_obj'[ctx.w].rd.waiting = watcher_obj[ctx.w].rd.waiting
        /\ watcher_obj'[ctx.w].wr.waiting = watcher_obj[ctx.w].wr.waiting
C18_Original ==
    /\ [](last.op = "SocketEventTriggered" => ~watcher_obj[ctx.w].is_stopped)
    /\ [][C18_RearmStep]_vars

\* C19 as stated: a firing of one direction of a ReadWrite watcher re-issues
\* a wait for that direction only, so at most one wait per direction is
\* outstanding for a watcher at any time.
C19_Original ==
    \A i \in DOMAIN watcher_obj :
        watcher_obj[i].used =>
            /\ watcher_obj[i].rd.waiting <= 1
            /\ watcher_obj[i].wr.waiting <= 1

\* C20 as stated: in every reachable state each socket has at most one
\* watcher that is started and not stopped, also after Watch is called for a
\* socket that already has a registered watcher.
C20_Original ==
    \A s \in Sockets : Cardinality(ActiveWatchers(s)) <= 1
\* C21 as stated: after a step that called Timer::Stop (alone or before a new
\* Timer::Start) the callback of an alarm that was armed before is never run,
\* also when that alarm had elapsed and its handler was already queued: the
\* very next step is never a TimerTriggered, since a wait armed by that step
\* has to elapse first.
C21_Step ==
    (\E k \in DOMAIN last.calls : last.calls[k].f = "Timer::Stop") =>
        ~(last'.op = "TimerTriggered" /\ last'.hit)
C21_Original == [][C21_Step]_vars
\* C22: the step that calls Timer::Start (0 ms included) starts no drive and
\* runs no handler: the alarm it armed is pending when it returns.  A drive
\* with the Timeout trigger begins only from the event loop, never inside a
\* running handler, and consumes exactly one elapsed alarm; an alarm elapses
\* once, and only one that was armed.  An alarm that is not cancelled does
\* not stay pending for ever, and while an elapsed alarm is queued a Timeout
\* drive follows.
TimeoutFired == ctx'.h = "TimerTriggered" /\ ctx'.pc = "drive" /\ ctx.pc # "drive"
StartCalled(step) == \E k \in DOMAIN step.calls : step.calls[k].f = "Timer::Start"
StopCalled(step) == \E k \in DOMAIN step.calls : step.calls[k].f = "Timer::Stop"
C22_Step ==
    /\ (StartCalled(last') /\ last' # last) =>
          /\ ctx' = ctx
          /\ timer_'.expired = timer_.expired
          /\ timer_'.waiting = 1
    /\ TimeoutFired =>
          /\ ctx.pc = "idle"
          /\ timer_'.expired = timer_.expired - 1
          /\ timer_'.waiting = timer_.waiting /\ timer_'.aborted = timer_.aborted
    /\ timer_'.expired > timer_.expired =>
          /\ ctx.pc = "idle" /\ ctx' = ctx
          /\ timer_'.expired = timer_.expired + 1
          /\ timer_'.waiting = timer_.waiting - 1
    /\ timer_'.waiting > timer_.waiting => StartCalled(last')
C22_NeverInsideStart ==
    /\ [][C22_Step]_vars
    /\ []<>(timer_.waiting = 0 \/ StopCalled(last))
    /\ (timer_.expired > 0) ~> (last.op = "TimerTriggered" /\ ctx.pc = "drive")

\* the alarm of a 0 ms request made inside a timer drive elapsed after the
\* handler had returned, and its own drive has begun
C22_Witness ==
    /\ last.op = "TimerTriggered" /\ ctx.pc = "drive"
    /\ start_count["A"] = 1 /\ finish_count["A"] = 0
    /\ timer_.waiting = 0 /\ timer_.expired = 0 /\ timer_.aborted = 1
\* C23: when WatchSocket calls StopWatching for a socket that has no entry in
\* watchers_, nothing changes in the socket manager apart from what a
\* following Watch adds: no watcher is touched, no wait is cancelled.  When
\* the socket has an entry whose socket object has been closed, the entry is
\* removed, the watcher is flagged as stopped (so that it does not re-arm),
\* its waits are left as close() left them, and the call returns normally.
StopWatchingCalled ==
    last'.op = "WatchSocket" /\ \E k \in DOMAIN last'.calls : last'.calls[k].f = "StopWatching"
C23_Step ==
    StopWatchingCalled =>
        LET s == last'.socket IN
        IF s \notin DOMAIN watchers_
        THEN /\ ctx' = ctx
             /\ \A i \in DOMAIN watcher_obj :
                    watcher_obj[i].used => watcher_obj'[i] = watcher_obj[i]
             /\ last'.action = "CURL_POLL_REMOVE" => UNCHANGED watch_vars
        ELSE LET i == watchers_[s] IN
             ~watcher_obj[i].open =>
                /\ ctx' = ctx
                /\ IF s \in DOMAIN watchers_' THEN watcher_obj'[watchers_'[s]].open ELSE TRUE
                /\ last'.action = "CURL_POLL_REMOVE" => s \notin DOMAIN watchers_'
                /\ (watcher_obj'[i].used /\ ~watcher_obj'[i].open) =>
                       /\ watcher_obj'[i].is_stopped
                       /\ ~Rearms(watcher_obj'[i])
                       /\ watcher_obj'[i].rd = watcher_obj[i].rd
                       /\ watcher_obj'[i].wr = watcher_obj[i].wr
C23_StopWatchingSafe == [][C23_Step]_vars /\ [](ctx.pc # "fault")

\* the watch of a socket that was closed has been removed while the handlers
\* that close() cancelled are still queued
C23_Witness ==
    /\ WatchSocketDone /\ last.action = "CURL_POLL_REMOVE" /\ last.tag = kIsNotNewSocketTag
    /\ last.socket \notin sockets_ /\ last.socket \notin DOMAIN watchers_
    /\ \E i \in DOMAIN watcher_obj :
          /\ watcher_obj[i].used /\ ~watcher_obj[i].open /\ watcher_obj[i].is_stopped
          /\ watcher_obj[i].rd.aborted = 1 /\ watcher_obj[i].rd.waiting = 0
    /\ ctx.pc = "drive"
\* C24: a wait handler of a watcher whose socket is open that runs without
\* operation_aborted calls the callback, which is SocketEventTriggered for the
\* watcher's socket with the direction that fired; when the callback has
\* returned and the watcher is not stopped, one fresh wait is issued for each
\* direction the watcher watches, and none when it is stopped.  With a socket
\* that stays ready and a fair event loop, callbacks keep coming while a
\* watch for one direction is registered.
SingleDirectionWatch ==
    \E s \in DOMAIN watchers_ : watcher_obj[watchers_[s]].event \in {"Read", "Write"}
C24_Step ==
    /\ \A i \in DOMAIN watcher_obj, cw \in BOOLEAN :
          (watcher_obj'[i].used /\ Dir(watcher_obj'[i], cw).ready < Dir(watcher_obj[i], cw).ready) =>
              /\ last'.op = "SocketEventTriggered"
              /\ last'.socket = watcher_obj[i].socket
              /\ last'.action = (IF cw THEN "CURL_CSELECT_OUT" ELSE "CURL_CSELECT_IN")
              /\ ctx'.pc = "drive" /\ ctx'.w = i /\ ctx'.cw = cw
    /\ (ctx.pc = "rearm" /\ ctx'.pc # "rearm") =>
          LET o == watcher_obj[ctx.w]
              n == watcher_obj'[ctx.w]
              fresh == IF o.is_stopped THEN 0 ELSE 1
          IN
          /\ ctx'.pc = "idle"
          /\ (o.is_stopped /\ WaitTotal(o.rd) + WaitTotal(o.wr) = 0) \/
                /\ n.rd.waiting = o.rd.waiting + (IF WatchRead(o.event) THEN fresh ELSE 0)
                /\ n.wr.waiting = o.wr.waiting + (IF WatchWrite(o.event) THEN fresh ELSE 0)
                /\ n.rd.ready = o.rd.ready /\ n.wr.ready = o.wr.ready
C24_ContinuousNotification ==
    /\ [][C24_Step]_vars
    /\ (ctx.h = "SocketEventTriggered" /\ ctx.pc = "drive") ~> (last.op = "EventTriggered")
    /\ []<>(~SingleDirectionWatch \/ (last.op = "SocketEventTriggered" /\ ctx.pc = "drive"))

\* the callback of a watcher for both directions has returned and the
\* watcher, not stopped, has issued its next waits
C24_Witness ==
    /\ last.op = "EventTriggered" /\ last.hit /\ last.socket = "S1"
    /\ ctx.pc = "idle"
    /\ "S1" \in DOMAIN watchers_
    /\ LET o == watcher_obj[watchers_["S1"]] IN
          /\ o.event = "ReadWrite" /\ ~o.is_stopped
          /\ o.rd.waiting = 1 /\ o.rd.ready = 0 /\ o.wr.waiting >= 1
\* C25: in the scenario Start(A), watch S1 for Read, S1 readable, completion
\* of A with CURLE_OK reported during the socket drive: the drain of that
\* drive takes A out of running_connections_ and invokes DidFinish(A,
\* CURLE_OK); DidFinish is invoked once in all; when the handler is back in
\* the event loop A is finished with CURLE_OK and the running set is empty;
\* and after the remove event for S1 the socket has no registered watch and
\* no watcher of S1 is left unstopped or with a pending wait.
C25_Step ==
    (ctx.h = "SocketEventTriggered" /\ DrainReads /\ IsRunning("A")) =>
        /\ Head(msg_queue) = [easy_handle |-> CHandle["A"], result |-> "CURLE_OK", run |-> 1]
        /\ running_connections_' = <<>>
        /\ finish_count'["A"] = 1
        /\ result_'["A"] = "CURLE_OK"
        /\ last'.calls = <<Call("DidFinish", "A", "CURLE_OK", 0)>>
C25_State ==
    /\ finish_count["A"] <= 1
    /\ phase["A"] = "finished" =>
          running_connections_ = <<>> /\ finish_count["A"] = 1 /\ result_["A"] = "CURLE_OK"
    /\ (WatchSocketDone /\ last.action = "CURL_POLL_REMOVE") =>
          /\ last.calls = <<Call("StopWatching", last.socket, "-", 0)>>
          /\ last.socket \notin DOMAIN watchers_
          /\ \A i \in DOMAIN watcher_obj :
                (watcher_obj[i].used /\ watcher_obj[i].socket = last.socket) =>
                    /\ watcher_obj[i].is_stopped
                    /\ watcher_obj[i].rd.waiting = 0 /\ watcher_obj[i].wr.waiting = 0
C25_EndToEnd ==
    /\ []C25_State
    /\ [][C25_Step]_vars
    /\ (ctx.h = "SocketEventTriggered" /\ msg_queue # <<>> /\ IsRunning("A")) ~>
          (ctx.pc = "idle" /\ phase["A"] = "finished" /\ running_connections_ = <<>>
             /\ finish_count["A"] = 1)

\* the scenario has run to its end: the handler of the read event has
\* returned without re-arming, A is finished with CURLE_OK, nothing is
\* running and S1 is no longer watched
C25_Witness ==
    /\ last.op = "EventTriggered" /\ ~last.hit /\ last.socket = "S1"
    /\ ctx.pc = "idle"
    /\ phase["A"] = "finished" /\ result_["A"] = "CURLE_OK" /\ finish_count["A"] = 1
    /\ running_connections_ = <<>> /\ msg_queue = <<>>
    /\ watchers_ = <<>>
    /\ \A i \in DOMAIN watcher_obj : ~watcher_obj[i].used
\* C26: inside the finished callback of A, StartConnection on a connection
\* that is not running (A itself or B) registers it and AbortConnection on a
\* running one removes it, both without touching the other connection, the
\* queue position of the drain or the handler; when the callback returns the
\* drain goes on and the handler leaves only with an empty queue; a
\* completion of B that is read after B was aborted is dropped without
\* DidFinish; and a connection that was started and neither finished nor
\* aborted since, A restarted from its own callback included, is in
\* running_connections_ when the handler returns.
InCallbackOf(c) == ctx.pc = "callback" /\ ctx.cb = c
C26_Step ==
    /\ \A c \in Conns :
          /\ (InCallbackOf("A") /\ StartStep(c) /\ ~IsRunning(c) /\ last'.hit) =>
                /\ CHandle[c] \in DOMAIN running_connections_'
                /\ running_connections_'[CHandle[c]] = c
                /\ \A d \in Conns \ {c} :
                      (CHandle[d] \in DOMAIN running_connections_') = IsRunning(d)
                /\ ctx' = ctx
                /\ msg_queue' = msg_queue
          /\ (InCallbackOf("A") /\ AbortStep(c) /\ IsRunning(c)) =>
                /\ CHandle[c] \notin DOMAIN running_connections_'
                /\ \A d \in Conns \ {c} :
                      (CHandle[d] \in DOMAIN running_connections_') = IsRunning(d)
                /\ ctx' = ctx
                /\ \A k \in DOMAIN msg_queue' : msg_queue'[k] \in
                      {msg_queue[j] : j \in DOMAIN msg_queue}
                /\ SelectSeq(msg_queue', LAMBDA m : m.easy_handle # CHandle[c])
                      = SelectSeq(msg_queue, LAMBDA m : m.easy_handle # CHandle[c])
          /\ (DrainReads /\ Head(msg_queue).easy_handle = CHandle[c] /\ phase[c] = "aborted") =>
                /\ ~last'.hit /\ last'.calls = <<>>
                /\ finish_count' = finish_count
                /\ result_' = result_
                /\ msg_queue' = Tail(msg_queue)
                /\ ctx' = ctx
    /\ (ctx.pc = "callback" /\ ctx'.pc # "callback") =>
          ctx' = [ctx EXCEPT !.pc = "drain", !.cb = "-"]
    /\ (ctx.pc = "drain" /\ ctx'.pc \in {"idle", "rearm"}) =>
          /\ msg_queue = <<>>
          /\ \A c \in Conns : (phase[c] = "running") = (CHandle[c] \in DOMAIN running_connections_')
C26_ReentrantCallbacks ==
    /\ [](\A c \in Conns : (phase[c] = "running") = IsRunning(c))
    /\ [][C26_Step]_vars

\* the drain has read every message of a handler invocation in which A
\* finished once and was started again from its own callback: A is running
C26_Witness ==
    /\ ctx.pc = "drain" /\ msg_queue = <<>> /\ ctx.done = 1
    /\ finish_count["A"] = 1 /\ start_count["A"] = 2 /\ abort_count["A"] = 0
    /\ finish_count["B"] = 0
    /\ IsRunning("A")
\* C27: a timer handler that runs without operation_aborted issues exactly
\* one curl_multi_socket_action, with CURL_SOCKET_TIMEOUT; a socket handler
\* that runs without operation_aborted issues exactly one, for the watcher's
\* socket, with CURL_CSELECT_OUT if can_write and CURL_CSELECT_IN otherwise.
\* A drive begins only in the event loop and only by these two; no step of
\* StartConnection, AbortConnection, SetTimer or WatchSocket drives the
\* engine; the drain begins only when the drive has returned, and completion
\* messages are read only there.
DriveCalls(step) ==
    SelectSeq(step.calls, LAMBDA k : k.f = "curl_multi_socket_action")
TimerHandlerRan == timer_'.expired < timer_.expired
SocketHandlerRan(i, cw) ==
    watcher_obj'[i].used /\ Dir(watcher_obj'[i], cw).ready < Dir(watcher_obj[i], cw).ready
C27_Step ==
    /\ TimerHandlerRan =>
          /\ last'.calls = <<Call("curl_multi_socket_action", "CURL_SOCKET_TIMEOUT", "-", 0)>>
          /\ ctx.pc = "idle" /\ ctx'.pc = "drive"
    /\ \A i \in DOMAIN watcher_obj, cw \in BOOLEAN :
          SocketHandlerRan(i, cw) =>
              /\ last'.calls = <<Call("curl_multi_socket_action", watcher_obj[i].socket,
                                      IF cw THEN "CURL_CSELECT_OUT" ELSE "CURL_CSELECT_IN", 0)>>
              /\ ctx.pc = "idle" /\ ctx'.pc = "drive"
    /\ (ctx'.pc = "drive" /\ ctx.pc # "drive") =>
          /\ ctx.pc = "idle"
          /\ Len(DriveCalls(last')) = 1
          /\ TimerHandlerRan \/ \E i \in DOMAIN watcher_obj, cw \in BOOLEAN : SocketHandlerRan(i, cw)
    /\ (ctx.pc # "idle" /\ last' # last) => DriveCalls(last') = <<>>
    /\ last'.op \in {"StartConnection", "AbortConnection", "SetTimer", "WatchSocket"} =>
          /\ DriveCalls(last') = <<>>
          /\ ctx' = ctx
    /\ (ctx.pc = "drive" /\ ctx'.pc # "drive") => (ctx'.pc = "drain" /\ ctx'.h = ctx.h)
    /\ (ctx'.pc = "drain" /\ ctx.pc # "drain") => ctx.pc \in {"drive", "callback"}
    /\ (last'.op = "CheckFinishedConnections" /\ last' # last) => ctx.pc = "drain"
C27_OneDrivePerEvent == [][C27_Step]_vars

\* a write event of S1 has begun its drive
C27_Witness ==
    /\ ctx.pc = "drive" /\ ctx.h = "SocketEventTriggered" /\ ctx.cw
    /\ last.calls = <<Call("curl_multi_socket_action", "S1", "CURL_CSELECT_OUT", 0)>>
    /\ IsRunning("A")
\* C28: a connection that is running or was aborted holds CURL_LAST; a
\* connection that finished holds a result code of the engine; the result
\* changes only when StartConnection registers the connection (to CURL_LAST)
\* and when DidFinish is invoked (to the code of the message that was read),
\* so it stays from DidFinish to the next registering StartConnection.
C28_State ==
    \A c \in Conns :
        /\ phase[c] \in {"idle", "running", "aborted"} => result_[c] = CURL_LAST
        /\ phase[c] = "finished" => result_[c] \in Results
        /\ IsRunning(c) => result_[c] = CURL_LAST
C28_Step ==
    /\ \A c \in Conns :
          result_'[c] # result_[c] =>
              \/ StartStep(c) /\ last'.hit /\ ~IsRunning(c) /\ result_'[c] = CURL_LAST
              \/ /\ DrainReads /\ Head(msg_queue).easy_handle = CHandle[c] /\ IsRunning(c)
                 /\ last'.calls = <<Call("DidFinish", c, Head(msg_queue).result, 0)>>
    /\ (DrainReads /\ Head(msg_queue).easy_handle \in DOMAIN running_connections_) =>
          result_'[running_connections_[Head(msg_queue).easy_handle]] = Head(msg_queue).result
    /\ \A c \in Conns : (AbortStep(c) /\ IsRunning(c)) => result_'[c] = CURL_LAST
C28_NoResultWhileRunning == []C28_State /\ [][C28_Step]_vars

\* A finished with a failure, was started again and then aborted: it holds no
\* result
C28_Witness ==
    /\ phase["A"] = "aborted" /\ finish_count["A"] = 1 /\ start_count["A"] = 2
    /\ last.op = "AbortConnection" /\ last.conn = "A" /\ last.hit
    /\ result_["A"] = CURL_LAST
\* C29: WatchSocket with CURL_POLL_IN calls Watch(socket, Read), with
\* CURL_POLL_OUT Watch(socket, Write) and with CURL_POLL_INOUT
\* Watch(socket, ReadWrite), for the socket of the event; the three interests
\* go to three different events; the watcher that is installed waits in
\* exactly the directions of that event; and a handler of that watcher that
\* runs enters SocketEventTriggered for the watcher's socket with a direction
\* the event contains.
C29_Event(action) ==
    CASE action = "CURL_POLL_IN" -> "Read"
      [] action = "CURL_POLL_OUT" -> "Write"
      [] action = "CURL_POLL_INOUT" -> "ReadWrite"
C29_State ==
    (WatchSocketDone /\ last.action # "CURL_POLL_REMOVE") =>
        /\ Cardinality(CallsOf("Watch")) = 1
        /\ last.calls[Len(last.calls)] = Call("Watch", last.socket, C29_Event(last.action), 0)
        /\ Cardinality({C29_Event(a) : a \in PollActions \ {"CURL_POLL_REMOVE"}}) = 3
        /\ last.socket \in sockets_ =>
              /\ last.socket \in DOMAIN watchers_
              /\ LET o == watcher_obj[watchers_[last.socket]] IN
                    /\ o.used /\ o.socket = last.socket /\ ~o.is_stopped
                    /\ o.event = C29_Event(last.action)
                    /\ o.rd.waiting = (IF last.action \in {"CURL_POLL_IN", "CURL_POLL_INOUT"} THEN 1 ELSE 0)
                    /\ o.wr.waiting = (IF last.action \in {"CURL_POLL_OUT", "CURL_POLL_INOUT"} THEN 1 ELSE 0)
C29_Step ==
    \A i \in DOMAIN watcher_obj, cw \in BOOLEAN :
        SocketHandlerRan(i, cw) =>
            /\ last'.op = "SocketEventTriggered"
            /\ last'.socket = watcher_obj[i].socket
            /\ ctx'.h = "SocketEventTriggered" /\ ctx'.socket = watcher_obj[i].socket
            /\ IF cw THEN watcher_obj[i].event \in {"Write", "ReadWrite"}
                     ELSE watcher_obj[i].event \in {"Read", "ReadWrite"}
C29_InterestMapsToEvent == []C29_State /\ [][C29_Step]_vars

\* the engine asked for both directions of S1 and a watcher for ReadWrite
\* has been installed
C29_Witness ==
    /\ WatchSocketDone /\ last.action = "CURL_POLL_INOUT" /\ last.socket = "S1"
    /\ "S1" \in DOMAIN watchers_
    /\ watcher_obj[watchers_["S1"]].event = "ReadWrite"
    /\ watcher_obj[watchers_["S1"]].rd.waiting = 1
    /\ watcher_obj[watchers_["S1"]].wr.waiting = 1
\* C30: while CheckFinishedConnections runs (drain loop and finished
\* callbacks) the queue of completion messages never grows: every turn of
\* the loop that reads a message shortens it by one, StartConnection and
\* AbortConnection called from a finished callback add no message, and a
\* turn that reads nothing leaves the loop.  Hence, with callbacks that
\* return, every drain that has begun ends.
InCheckFinished == ctx.pc \in {"drain", "callback"}
C30_Step ==
    /\ InCheckFinished =>
          /\ Len(msg_queue') <= Len(msg_queue)
          /\ \A k \in DOMAIN msg_queue' : \E j \in DOMAIN msg_queue : msg_queue'[k] = msg_queue[j]
          /\ ctx'.pc # "drive"
    /\ DrainReads => Len(msg_queue') = Len(msg_queue) - 1
    /\ (ctx.pc = "drain" /\ msg_queue = <<>> /\ ctx' # ctx) => ctx'.pc \in {"idle", "rearm"}
    /\ (ctx.pc = "callback" /\ ctx'.pc # "callback") => ctx'.pc = "drain"
C30_DrainTerminates ==
    /\ [][C30_Step]_vars
    /\ InCheckFinished ~> (ctx.pc \in {"idle", "rearm"})

\* one drain has invoked DidFinish on A twice, A having been started again
\* from its own finished callback, and has emptied the queue
C30_Witness ==
    /\ ctx.pc = "drain" /\ msg_queue = <<>> /\ ctx.done = 2
    /\ finish_count["A"] = 2 /\ start_count["A"] = 2

\* C31 as stated: whenever no handler of the reactor is running, the easy
\* handles the engine holds (added and not removed) are exactly the keys of
\* running_connections_; and a StartConnection step that registers a
\* connection never passes to curl_multi_add_handle a handle the engine
\* still holds.
C31_State == ctx.pc = "idle" => multi_handles = DOMAIN running_connections_
C31_Step ==
    \A c \in Conns :
        (StartStep(c) /\ last'.hit) => CHandle[c] \notin multi_handles
C31_Original == []C31_State /\ [][C31_Step]_vars

\* C32 as stated: a completion message is delivered as DidFinish only to the
\* run that produced it: when the drain loop invokes DidFinish on a
\* connection, the message it read was queued for the current registration
\* of that connection, also when the connection was aborted and started
\* again while the message was queued.
C32_Original ==
    (last.op = "CheckFinishedConnections" /\ last.hit) =>
        last.tag = start_count[last.conn]

\* the position a seek request asks for, in unbounded integers
SeekTarget(origin, cursor, offset) ==
    CASE origin = "SEEK_SET" -> offset
      [] origin = "SEEK_CUR" -> cursor + offset
      [] origin = "SEEK_END" -> RequestBodyLength + offset

\* C33: without a read callback the cursor stays within 0..length; a
\* ReadBody call with a buffer of n bytes hands out min(length - cursor, n)
\* bytes from the cursor on and advances the cursor by that many, so that
\* successive calls hand out the body once and in order and a call at the end
\* hands out 0 bytes; a registering StartConnection puts the cursor back to
\* 0; a SeekBody call whose target is outside 0..length fails and leaves the
\* cursor where it was; and nothing else moves the cursor.
C33_State ==
    \A c \in Conns :
        /\ request_body_read_length_[c] >= 0
        /\ request_body_read_length_[c] <= RequestBodyLength
C33_Step ==
    \A c \in Conns :
        LET cursor == request_body_read_length_[c]
            after == request_body_read_length_'[c] IN
        /\ (last'.op = "ReadBody" /\ last'.conn = c) =>
              /\ last'.tag = cursor
              /\ last'.calls[1].ms = Min(RequestBodyLength - cursor, last'.ms)
              /\ after = cursor + last'.calls[1].ms
              /\ (cursor = RequestBodyLength => last'.calls[1].ms = 0)
        /\ (last'.op = "CurlSeekBodyCallback" /\ last'.conn = c /\ last'.calls # <<>>
            /\ SeekTarget(last'.action, cursor, last'.ms) \notin 0..RequestBodyLength) =>
              /\ ~last'.hit
              /\ after = cursor
        /\ (StartStep(c) /\ last'.hit) => after = 0
        /\ after # cursor =>
              \/ last'.op = "ReadBody" /\ last'.conn = c
              \/ last'.op = "CurlSeekBodyCallback" /\ last'.conn = c
              \/ StartStep(c) /\ last'.hit
C33_BodyReadOnceInOrder == []C33_State /\ [][C33_Step]_vars

\* the last byte of the body was handed out by a read that asked for more
\* than was left
C33_Witness ==
    /\ last.op = "ReadBody" /\ last.tag = RequestBodyLength - 1 /\ last.ms > 1
    /\ last.calls[1].ms = 1
    /\ request_body_read_length_["A"] = RequestBodyLength

\* C34 as stated: a seek request of the engine with origin SEEK_SET, SEEK_CUR
\* or SEEK_END whose target (origin position + offset) is within 0..length
\* moves the cursor to the target and returns 0.
C34_Step ==
    \A c \in Conns :
        (last'.op = "CurlSeekBodyCallback" /\ last'.conn = c
         /\ SeekTarget(last'.action, request_body_read_length_[c], last'.ms)
                \in 0..RequestBodyLength) =>
            /\ last'.hit
            /\ request_body_read_length_'[c] =
                  SeekTarget(last'.action, request_body_read_length_[c], last'.ms)
C34_Original == [][C34_Step]_vars

\* C35 as stated: the map GetResponseHeaders returns for a connection that
\* has finished is the parse of the whole raw header text the connection
\* holds, which is that of its most recent run; also when GetResponseHeaders
\* was called before, while header lines were still arriving.
C35_Original ==
    \A c \in Conns :
        (last.op = "GetResponseHeaders" /\ last.conn = c /\ phase[c] = "finished") =>
            response_headers_[c] = ParsedFields(response_header_[c])
====
